---- MODULE Spec2Model ----
(***************************************************************************)
(* A model of facter's Ruby extension bridge (lib/src/ruby/module.cc):    *)
(* the Facter module's entry points, the custom fact discovery and        *)
(* loading algorithm, and the command execution proxy.                    *)
(*                                                                         *)
(* Strings whose characters matter (fact names, messages) are sequences   *)
(* of one-character strings; directories are opaque strings; a file path  *)
(* is the pair <<directory, file name>>.  A Ruby VALUE is a record that   *)
(* carries its class and its text.                                        *)
(***************************************************************************)
EXTENDS Naturals, Sequences, FiniteSets, TLC

(***************************************************************************)
(* Bounds of the model.                                                   *)
(***************************************************************************)
\* the count at which the counters of executions and of log lines stop
MaxExecuted == 2
\* resolutions a fact holds when a further top-level add is made for it
MaxResolutions == 2
\* runtime search paths present when a further search call is made
MaxSearch == 1
\* external search paths present when a further search_external call is made
MaxExternal == 1

(***************************************************************************)
(* Ruby values.                                                           *)
(***************************************************************************)
Str(s) == [type |-> "String", str |-> s]
Sym(s) == [type |-> "Symbol", str |-> s]
Fixnum(s) == [type |-> "Fixnum", str |-> s]
Hash(s) == [type |-> "Hash", str |-> s]
nil_value == [type |-> "nil", str |-> <<>>]

is_symbol(v) == v.type = "Symbol"
is_string(v) == v.type = "String"
is_nil(v) == v.type = "nil"
\* api::to_string: the text of the value's to_s
to_string(v) == v.str
rb_sym_to_s(v) == Str(v.str)

Lower(c) ==
    CASE c = "O" -> "o"
      [] c = "S" -> "s"
      [] c = "M" -> "m"
      [] c = "K" -> "k"
      [] c = "N" -> "n"
      [] c = "B" -> "b"
      [] OTHER -> c
\* String#downcase
downcase(s) == [i \in 1..Len(s) |-> Lower(s[i])]

normalize_symbol_only(name) ==
    IF is_symbol(name) THEN rb_sym_to_s(name)
    ELSE IF is_string(name) THEN Str(downcase(name.str))
    ELSE name

\* module::normalize
normalize(name) ==
    LET n1 == IF is_symbol(name) THEN rb_sym_to_s(name) ELSE name
    IN  IF is_string(n1) THEN Str(downcase(n1.str)) ELSE n1

(***************************************************************************)
(* The environment the bridge runs in: the file system, the interpreter's *)
(* load path, the native collection's fact sources and the commands the   *)
(* execution collaborator can run.                                        *)
(***************************************************************************)
\* boost::filesystem::canonical: the canonical directory, or an error
canonical(p) ==
    CASE p = "/ruby" -> [ok |-> TRUE, path |-> "/ruby"]
      [] p = "/lp" -> [ok |-> TRUE, path |-> "/lp"]
      [] p = "/lp/facter" -> [ok |-> TRUE, path |-> "/lp/facter"]
      [] p = "/d1" -> [ok |-> TRUE, path |-> "/d1"]
      [] p = "/d2/../d1" -> [ok |-> TRUE, path |-> "/d1"]
      [] p = "/d2" -> [ok |-> TRUE, path |-> "/d2"]
      [] p = "/d3" -> [ok |-> TRUE, path |-> "/d3"]
      [] OTHER -> [ok |-> FALSE, path |-> ""]

\* the directories that exist
is_directory(p) == p \in {"/ruby", "/lp", "/lp/facter", "/d1", "/d2", "/d3"}

\* operator/ of boost::filesystem::path on a directory and a file name
PathJoin(directory, filename) == <<directory, filename>>

\* the files of each directory, in the order each_file enumerates them
DirListing(directory) ==
    CASE directory = "/ruby" -> << <<"facter.rb">> >>
      [] directory = "/lp/facter" -> << <<"o", "s", ".rb">> >>
      [] directory = "/d1" -> << <<"b", ".rb">>, <<"n", "o">>, <<"o", "s", ".rb">> >>
      [] directory = "/d2" -> << <<"m", ".rb">> >>
      [] directory = "/d3" -> << <<"s", ".rb">> >>
      [] OTHER -> << >>

is_regular_file(p) ==
    \E i \in 1..Len(DirListing(p[1])) : DirListing(p[1])[i] = p[2]

\* the pattern "\\.rb$" of load_facts
MatchesRb(filename) == Len(filename) > 0 /\ filename[Len(filename)] = ".rb"

\* $LOAD_PATH of the interpreter (api::get_load_path)
LoadPath == <<"/ruby", "/lp", "/nx">>

\* environment::get_path_separator
PathSeparator == ":"

\* the values FACTERLIB takes: unset, or a separated list of directories
FacterlibValues ==
    { [set |-> FALSE, val |-> << >>],
      [set |-> TRUE, val |-> <<"/nx", ":", "/d1">>] }

\* the explicit paths a module is constructed with
ConstructionPaths == { << >>, <<"/d2">> }

\* collection::add_default_facts
DefaultFacts == [n \in { <<"k">> } |-> Str(<<"linux">>)]

\* collection::add_external_facts
ExternalFacts(paths) ==
    IF \E i \in 1..Len(paths) : paths[i] = "/ext"
    THEN [n \in { <<"e">> } |-> Str(<<"site">>)]
    ELSE << >>

\* execution::execute("sh", {"-c", command}): success flag and output
ExecutionResult(command) ==
    CASE command = <<"echo hi">> -> [success |-> TRUE, output |-> Str(<<"hi">>)]
      [] command = <<"true">> -> [success |-> TRUE, output |-> Str(<< >>)]
      [] OTHER -> [success |-> FALSE, output |-> Str(<< >>)]

(***************************************************************************)
(* Plugin files.  A script is the sequence of Facter calls the file makes *)
(* when the interpreter executes it; a call is [op, argv, block].         *)
(***************************************************************************)
NoBlock == [given |-> FALSE, raises |-> FALSE, value |-> nil_value]
\* a block that runs setcode with the given value
Setcode(v) == [given |-> TRUE, raises |-> FALSE, value |-> v]
\* a block that raises before it sets anything
RaisingBlock == [given |-> TRUE, raises |-> TRUE, value |-> nil_value]

CallOf(op, argv, block) == [op |-> op, argv |-> argv, block |-> block]

OsRb == <<"o", "s", ".rb">>
MRb == <<"m", ".rb">>
BRb == <<"b", ".rb">>
SRb == <<"s", ".rb">>

\* what rb_load runs for each plugin file of the file system
Script(path) ==
    CASE path = <<"/lp/facter", OsRb>> ->
            << CallOf("add", << Sym(<<"O", "S">>) >>, Setcode(Str(<<"Linux">>))) >>
      [] path = <<"/d1", OsRb>> ->
            << CallOf("debugonce", << Str(<<"x">>) >>, NoBlock),
               CallOf("add", << Str(<<"o", "s">>) >>, Setcode(Str(<<"Darwin">>))) >>
      [] path = <<"/d1", BRb>> ->
            << CallOf("add", << Str(<<"B">>) >>, RaisingBlock),
               CallOf("add", << Str(<<"m">>) >>, Setcode(Str(<<"never">>))) >>
      [] path = <<"/d2", MRb>> ->
            << CallOf("value", << Str(<<"m">>) >>, NoBlock),
               CallOf("fact", << Sym(<<"o", "s">>) >>, NoBlock),
               CallOf("loadfacts", << >>, NoBlock),
               CallOf("add", << Sym(<<"M">>) >>, Setcode(Str(<<"4096">>))) >>
      [] path = <<"/d3", SRb>> ->
            << CallOf("search", << Str("/d1") >>, NoBlock),
               CallOf("add", << Sym(<<"S">>) >>, Setcode(Str(<<"ssd">>))) >>
      [] OTHER -> << >>

(***************************************************************************)
(* The state a call works on is a record m of the module's fields (named  *)
(* as in the source), the native collection, the interpreter's registered *)
(* addresses, the process environment, and what the call has done so far: *)
(* log (events in order), exc (the Ruby exception in flight) and ret.     *)
(***************************************************************************)
NoException == "none"

Log(m, event) == [m EXCEPT !.log = Append(@, event)]
Raise(m, exception) == [m EXCEPT !.exc = exception, !.ret = nil_value]
Return(m, v) == [m EXCEPT !.ret = v]

\* a function with one more (or one replaced) entry
Put(f, k, v) == [x \in DOMAIN f \cup {k} |-> IF x = k THEN v ELSE f[x]]
\* the entries of g, then those of f that g lacks
Merge(f, g) == [x \in DOMAIN f \cup DOMAIN g |-> IF x \in DOMAIN g THEN g[x] ELSE f[x]]

\* collection::operator[]: the value under a name, nil when there is none
Lookup(coll, name) == IF name \in DOMAIN coll THEN coll[name] ELSE nil_value

\* module::facts
facts(m) ==
    IF DOMAIN m._collection = {}
    THEN Log([m EXCEPT !._collection =
                    Merge(DefaultFacts, ExternalFacts(m._external_search_paths))],
             <<"populate">>)
    ELSE m

\* a fact object as fact::create makes it
NewFact == [value |-> nil_value, resolved |-> FALSE, resolutions |-> << >>]
\* the VALUE of a fact object (fact::self)
FactSelf(key) == [type |-> "Fact", str |-> key]

\* rb_gc_register_address / rb_gc_unregister_address on a fact's slot
GcRegister(reg, key) == Put(reg, key, (IF key \in DOMAIN reg THEN reg[key] ELSE 0) + 1)
GcUnregisterAll(reg, keys) == [k \in DOMAIN reg \ keys |-> reg[k]]

\* create_fact that registers the address of the fact it finds as well
create_fact_registers_found(m, name) ==
    IF ~is_string(name) /\ ~is_symbol(name)
    THEN Raise(m, "TypeError")
    ELSE IF to_string(normalize(name)) \in DOMAIN m._facts
    THEN Return([m EXCEPT !.gc_registered = GcRegister(@, to_string(normalize(name)))],
                FactSelf(to_string(normalize(name))))
    ELSE Return([facts(m) EXCEPT
                    !._facts = Put(@, to_string(normalize(name)), NewFact),
                    !.gc_registered = GcRegister(@, to_string(normalize(name)))],
                FactSelf(to_string(normalize(name))))

\* module::create_fact
create_fact(m, name) ==
    IF ~is_string(name) /\ ~is_symbol(name)
    THEN Raise(m, "TypeError")
    ELSE LET fact_name == to_string(normalize(name))
         IN  IF fact_name \in DOMAIN m._facts
             THEN Return(m, FactSelf(fact_name))
             ELSE Return([facts(m) EXCEPT
                            !._facts = Put(@, fact_name, NewFact),
                            !.gc_registered = GcRegister(@, fact_name)],
                         FactSelf(fact_name))

clear_facts_keeps_handles(m, clear_collection) ==
    [m EXCEPT !.gc_registered = GcUnregisterAll(@, DOMAIN m._facts),
              !._collection = IF clear_collection THEN << >> ELSE @]

\* module::clear_facts
clear_facts(m, clear_collection) ==
    [m EXCEPT !.gc_registered = GcUnregisterAll(@, DOMAIN m._facts),
              !._facts = << >>,
              !._collection = IF clear_collection THEN << >> ELSE @]

\* the default argument of clear_facts(bool clear_collection)
ClearCollectionDefault == TRUE

(***************************************************************************)
(* Search paths.                                                          *)
(***************************************************************************)
\* util::split of the FACTERLIB value on the path separator
split(variable, separator) == SelectSeq(variable, LAMBDA t : t # separator)

\* the first loop of initialize_search_paths: "facter" directories of $LOAD_PATH
RECURSIVE LoadPathDirectories(_, _)
LoadPathDirectories(load_path, i) ==
    IF i > Len(load_path) THEN << >>
    ELSE LET dir == canonical(load_path[i])
             rest == LoadPathDirectories(load_path, i + 1)
         IN  IF ~dir.ok THEN rest
             ELSE IF is_regular_file(PathJoin(dir.path, <<"facter.rb">>)) THEN rest
             ELSE IF ~is_directory(dir.path \o "/facter") THEN rest
             ELSE <<dir.path \o "/facter">> \o rest

\* the canonical transform: the canonical name, or the empty string on error
CanonicalTransform(paths) ==
    [i \in 1..Len(paths) |->
        IF canonical(paths[i]).ok THEN canonical(paths[i]).path ELSE ""]

\* what a moved-from std::string holds: the standard leaves it unspecified
MovedFromStates == {"empty", "unchanged"}

\* std::remove_if(first, last, empty): shifts the kept elements to the front
\* and returns the new logical end; the sequence keeps its length
RECURSIVE RemoveIfEmpty(_, _, _, _)
RemoveIfEmpty(seq, first, i, moved_from) ==
    IF i > Len(seq) THEN seq
    ELSE IF seq[i] = "" THEN RemoveIfEmpty(seq, first, i + 1, moved_from)
    ELSE RemoveIfEmpty(
            [seq EXCEPT ![first] = seq[i],
                        ![i] = IF moved_from = "empty" THEN "" ELSE seq[i]],
            first + 1, i + 1, moved_from)

FirstEmpty(seq) ==
    IF \E i \in 1..Len(seq) : seq[i] = ""
    THEN CHOOSE i \in 1..Len(seq) : seq[i] = "" /\ \A j \in 1..(i - 1) : seq[j] # ""
    ELSE Len(seq) + 1

remove_if(seq, moved_from) ==
    RemoveIfEmpty(seq, FirstEmpty(seq), FirstEmpty(seq) + 1, moved_from)

initialize_search_paths_keeps_additional(m, paths, moved_from) ==
    LET candidates ==
            LoadPathDirectories(LoadPath, 1)
            \o (IF m.FACTERLIB.set THEN split(m.FACTERLIB.val, PathSeparator) ELSE << >>)
            \o paths
    IN  [m EXCEPT
            !._search_paths = remove_if(CanonicalTransform(candidates), moved_from)]

\* module::initialize_search_paths
initialize_search_paths(m, paths, moved_from) ==
    LET candidates ==
            LoadPathDirectories(LoadPath, 1)
            \o (IF m.FACTERLIB.set THEN split(m.FACTERLIB.val, PathSeparator) ELSE << >>)
            \o paths
    IN  [m EXCEPT
            !._search_paths = remove_if(CanonicalTransform(candidates), moved_from),
            !._additional_search_paths = << >>]

\* module::ruby_search
RECURSIVE ruby_search(_, _, _)
ruby_search_records_canonical(m, argv, i) ==
    IF i > Len(argv) THEN Return(m, nil_value)
    ELSE IF ~is_string(argv[i]) THEN ruby_search(m, argv, i + 1)
    ELSE LET directory == canonical(to_string(argv[i]))
         IN  IF ~directory.ok THEN ruby_search(m, argv, i + 1)
             ELSE ruby_search([m EXCEPT !._additional_search_paths = Append(@, directory.path),
                                        !._search_paths = Append(@, directory.path)],
                              argv, i + 1)

ruby_search(m, argv, i) ==
    IF i > Len(argv) THEN Return(m, nil_value)
    ELSE IF ~is_string(argv[i]) THEN ruby_search(m, argv, i + 1)
    ELSE LET m1 == [m EXCEPT !._additional_search_paths = Append(@, to_string(argv[i]))]
             directory == canonical(to_string(argv[i]))
         IN  IF ~directory.ok THEN ruby_search(m1, argv, i + 1)
             ELSE ruby_search([m1 EXCEPT !._search_paths = Append(@, directory.path)],
                              argv, i + 1)

\* module::ruby_search_path
ruby_search_path(m) == Return(m, [type |-> "Array", str |-> m._additional_search_paths])

\* module::ruby_search_external
ruby_search_external(m, paths) ==
    Return([m EXCEPT !._external_search_paths =
                @ \o [i \in 1..Len(SelectSeq(paths, is_string)) |->
                        to_string(SelectSeq(paths, is_string)[i])]],
           nil_value)

\* module::ruby_search_external_path
ruby_search_external_path(m) ==
    Return(m, [type |-> "Array", str |-> m._external_search_paths])

(***************************************************************************)
(* The fact object (fact.cc), as far as the bridge uses it.               *)
(***************************************************************************)
\* the value of the first resolution that has one
FirstResolved(resolutions) ==
    IF \E i \in 1..Len(resolutions) : ~is_nil(resolutions[i])
    THEN resolutions[CHOOSE i \in 1..Len(resolutions) :
            /\ ~is_nil(resolutions[i])
            /\ \A j \in 1..(i - 1) : is_nil(resolutions[j])]
    ELSE nil_value

\* fact::value(): the cached value, or the value computed from the
\* resolutions (else from the native collection), then cached and stored
FactValue(m, key) ==
    LET f == m._facts[key]
        m0 == Log(m, <<"value", key>>)
    IN  IF f.resolved THEN Return(m0, f.value)
        ELSE LET m1 == facts(m0)
                 computed == FirstResolved(f.resolutions)
                 v == IF is_nil(computed) THEN Lookup(m1._collection, key) ELSE computed
             IN  Return([m1 EXCEPT
                            !._facts[key].value = v,
                            !._facts[key].resolved = TRUE,
                            !._collection = IF is_nil(v) THEN @ ELSE Put(@, key, v)],
                        v)

\* fact::value(VALUE): sets the cached value
FactSetValue(m, key, v) ==
    [m EXCEPT !._facts[key].value = v, !._facts[key].resolved = TRUE]

\* fact::flush: drops the cached value
FactFlush(f) == [f EXCEPT !.value = nil_value, !.resolved = FALSE]

\* fact::define_resolution: fails on an option it does not know
DefineResolutionFails(options) == options.type = "Hash" /\ options.str = <<"bogus">>

(***************************************************************************)
(* Entry points that run no plugin code.                                  *)
(***************************************************************************)
ruby_add_no_invalidate(m, argv, block) ==
    IF Len(argv) = 0 \/ Len(argv) > 2 THEN Raise(m, "ArgumentError")
    ELSE LET m1 == create_fact(m, argv[1])
             key == m1.ret.str
             options == IF Len(argv) = 2 THEN argv[2] ELSE nil_value
         IN  IF m1.exc # NoException THEN m1
             ELSE IF ~is_nil(options) /\ options.type # "Hash" THEN Raise(m1, "NoMethodError")
             ELSE IF DefineResolutionFails(options) THEN Raise(m1, "ArgumentError")
             ELSE IF block.given /\ block.raises
                  THEN Raise([m1 EXCEPT !._facts[key].resolutions = Append(@, nil_value)],
                             "RuntimeError")
             ELSE Return([m1 EXCEPT !._facts[key].resolutions =
                                Append(@, IF block.given THEN block.value ELSE nil_value)],
                         FactSelf(key))

\* module::ruby_add
ruby_add(m, argv, block) ==
    IF Len(argv) = 0 \/ Len(argv) > 2 THEN Raise(m, "ArgumentError")
    ELSE LET m1 == create_fact(m, argv[1])
             key == m1.ret.str
             options == IF Len(argv) = 2 THEN argv[2] ELSE nil_value
         IN  IF m1.exc # NoException THEN m1
             \* options.delete(:name), outside of the protected region
             ELSE IF ~is_nil(options) /\ options.type # "Hash" THEN Raise(m1, "NoMethodError")
             \* the protected region: define the resolution, call the block
             ELSE IF DefineResolutionFails(options)
                  THEN Raise(FactSetValue(m1, key, nil_value), "ArgumentError")
             ELSE IF block.given /\ block.raises
                  THEN Raise(FactSetValue(
                                [m1 EXCEPT !._facts[key].resolutions = Append(@, nil_value)],
                                key, nil_value),
                             "RuntimeError")
             ELSE Return([m1 EXCEPT !._facts[key].resolutions =
                                Append(@, IF block.given THEN block.value ELSE nil_value)],
                         FactSelf(key))

\* module::ruby_define_fact
ruby_define_fact(m, argv, block) ==
    IF Len(argv) = 0 \/ Len(argv) > 2 THEN Raise(m, "ArgumentError")
    ELSE LET m1 == create_fact(m, argv[1])
         IN  IF m1.exc # NoException THEN m1
             ELSE IF block.given /\ block.raises THEN Raise(m1, "RuntimeError")
             ELSE m1

\* a counter that stops at MaxExecuted
Increment(counts, key) ==
    LET old == IF key \in DOMAIN counts THEN counts[key] ELSE 0
    IN  Put(counts, key, IF old < MaxExecuted THEN old + 1 ELSE old)

\* a line written by debugonce or warnonce: logged, and counted
EmitOnce(m, severity, msg) ==
    [Log(m, <<severity, msg>>) EXCEPT !.once_emitted = Increment(@, <<severity, msg>>)]

\* module::ruby_debug
ruby_debug(m, message) == Return(Log(m, <<"LOG_DEBUG", to_string(message)>>), nil_value)

\* module::ruby_debugonce
ruby_debugonce(m, message) ==
    LET msg == to_string(message)
    IN  IF msg \notin m._debug_messages
        THEN Return(EmitOnce([m EXCEPT !._debug_messages = @ \cup {msg}], "LOG_DEBUG", msg),
                    nil_value)
        ELSE Return(m, nil_value)

\* module::ruby_warn
ruby_warn(m, message) == Return(Log(m, <<"LOG_WARNING", to_string(message)>>), nil_value)

\* module::ruby_warnonce
ruby_warnonce(m, message) ==
    LET msg == to_string(message)
    IN  IF msg \notin m._warning_messages
        THEN Return(EmitOnce([m EXCEPT !._warning_messages = @ \cup {msg}], "LOG_WARNING", msg),
                    nil_value)
        ELSE Return(m, nil_value)

\* module::ruby_flush
ruby_flush(m) ==
    Return([m EXCEPT !._facts = [k \in DOMAIN m._facts |-> FactFlush(m._facts[k])]],
           nil_value)

ruby_reset_clears_messages(m, moved_from) ==
    LET m1 == initialize_search_paths(clear_facts(m, ClearCollectionDefault), << >>, moved_from)
    IN  Return([m1 EXCEPT !._external_search_paths = << >>,
                          !._loaded_all = FALSE,
                          !._loaded_files = {},
                          !._debug_messages = {},
                          !._warning_messages = {}],
               nil_value)

\* module::ruby_reset
ruby_reset(m, moved_from) ==
    LET m1 == initialize_search_paths(clear_facts(m, ClearCollectionDefault), << >>, moved_from)
    IN  Return([m1 EXCEPT !._external_search_paths = << >>,
                          !._loaded_all = FALSE,
                          !._loaded_files = {}],
               nil_value)

\* module::ruby_clear
ruby_clear(m, moved_from) == Return(ruby_reset(ruby_flush(m), moved_from), nil_value)

\* module::execute_command: the value returned or the exception raised
execute_command(command, failure_default, raise) ==
    LET result == ExecutionResult(command)
    IN  IF result.success THEN [ret |-> result.output, exc |-> NoException]
        ELSE IF raise THEN [ret |-> nil_value, exc |-> "ExecutionFailure"]
        ELSE [ret |-> failure_default, exc |-> NoException]

ruby_exec_raises(command) == execute_command(to_string(command), nil_value, TRUE)

\* module::ruby_exec
ruby_exec(command) == execute_command(to_string(command), nil_value, FALSE)

\* an options hash with an on_fail entry, and one without
OnFail(v) == [type |-> "Hash", str |-> <<"on_fail">>, on_fail |-> v]
NoOnFail == [type |-> "Hash", str |-> << >>, on_fail |-> nil_value]
\* rb_hash_lookup(options, :on_fail): the entry, nil when the hash has none
HashLookupOnFail(options) ==
    IF options.str = <<"on_fail">> THEN options.on_fail ELSE nil_value

ruby_execute_any_raise(argv) ==
    IF Len(argv) = 0 \/ Len(argv) > 2 THEN [ret |-> nil_value, exc |-> "ArgumentError"]
    ELSE IF Len(argv) = 1 THEN execute_command(to_string(argv[1]), nil_value, TRUE)
    ELSE LET option == HashLookupOnFail(argv[2])
         IN  IF to_string(option) = <<"raise">>
             THEN execute_command(to_string(argv[1]), nil_value, TRUE)
             ELSE execute_command(to_string(argv[1]), option, FALSE)

\* module::ruby_execute
ruby_execute(argv) ==
    IF Len(argv) = 0 \/ Len(argv) > 2 THEN [ret |-> nil_value, exc |-> "ArgumentError"]
    ELSE IF Len(argv) = 1 THEN execute_command(to_string(argv[1]), nil_value, TRUE)
    ELSE LET option == HashLookupOnFail(argv[2])
         IN  IF is_symbol(option) /\ to_string(option) = <<"raise">>
             THEN execute_command(to_string(argv[1]), nil_value, TRUE)
             ELSE execute_command(to_string(argv[1]), option, FALSE)

(***************************************************************************)
(* Discovery and loading.  Executing a plugin file runs its script, whose *)
(* calls re-enter the bridge: the operators below are mutually recursive. *)
(***************************************************************************)
RECURSIVE load_file(_, _)
RECURSIVE load_facts(_)
RECURSIVE load_fact(_, _)

\* one more execution of the file at path
CountExecution(m, path) ==
    [m EXCEPT !.executed = Increment(@, path),
              !.executed_since_reset = Increment(@, path)]

\* fact::value() on the fact a lookup returned, nil when it returned none
ValueOfLoaded(m1) ==
    IF is_nil(m1.ret) THEN Return(m1, nil_value) ELSE FactValue(m1, m1.ret.str)

\* module::fact_value
fact_value(m, name) == ValueOfLoaded(load_fact(m, name))

\* the Facter method a plugin file calls: rb_define_singleton_method's table
Dispatch(m, c) ==
    CASE c.op = "add" -> ruby_add(m, c.argv, c.block)
      [] c.op = "define_fact" -> ruby_define_fact(m, c.argv, c.block)
      [] c.op = "value" -> fact_value(m, c.argv[1])
      [] c.op = "fact" -> load_fact(m, c.argv[1])
      [] c.op = "loadfacts" -> Return(load_facts(m), nil_value)
      [] c.op = "search" -> ruby_search(m, c.argv, 1)
      [] c.op = "debugonce" -> ruby_debugonce(m, c.argv[1])
      [] c.op = "warnonce" -> ruby_warnonce(m, c.argv[1])
      [] OTHER -> Raise(m, "NoMethodError")

\* rb_load of a file: its calls in order, up to the first one that raises
RECURSIVE RunScript(_, _, _)
ScriptAfterCall(m1, script, i) ==
    IF m1.exc # NoException THEN m1 ELSE RunScript(m1, script, i + 1)

RunScript(m, script, i) ==
    IF i > Len(script) THEN m ELSE ScriptAfterCall(Dispatch(m, script[i]), script, i)

BeginLoad_records_nothing(m, path) ==
    CountExecution(Log(m, <<"rb_load", path>>), path)

\* the file is recorded as loaded, then executed
BeginLoad(m, path) ==
    CountExecution(Log([m EXCEPT !._loaded_files = @ \cup {path}], <<"rb_load", path>>),
                   path)

\* what a range-for over _search_paths does once a call made from the file
\* being loaded has changed the vector: its iterators are invalid, and the
\* loop either goes on over the elements it started with or the process dies
DanglingOutcomes == {"stale", "crash"}
Crash == "SIGSEGV"

IterationModified(m1, container) ==
    IF m1.dangling = "crash"
    THEN Raise(Log(m1, <<"modified", container>>), Crash)
    ELSE Log(m1, <<"modified", container>>)

\* the step of such a loop to its next element
NextElement(m1, directories) ==
    IF m1.exc = NoException /\ m1._search_paths # directories
    THEN IterationModified(m1, "_search_paths")
    ELSE m1

\* api::rescue: an exception of the callback is logged and goes no further
Rescue(m2, path) ==
    IF m2.exc = Crash THEN m2
    ELSE IF m2.exc # NoException
    THEN [Log(m2, <<"LOG_ERROR", path>>) EXCEPT !.exc = NoException]
    ELSE m2

load_file_forgets_failed(m, path) ==
    IF path \in m._loaded_files THEN m
    ELSE IF RunScript(BeginLoad(m, path), Script(path), 1).exc # NoException
         THEN [Rescue(RunScript(BeginLoad(m, path), Script(path), 1), path)
                  EXCEPT !._loaded_files = @ \ {path}]
    ELSE RunScript(BeginLoad(m, path), Script(path), 1)

load_file_no_rescue(m, path) ==
    IF path \in m._loaded_files THEN m
    ELSE RunScript(BeginLoad(m, path), Script(path), 1)

\* module::load_file
load_file(m, path) ==
    IF path \in m._loaded_files THEN m
    ELSE Rescue(RunScript(BeginLoad(m, path), Script(path), 1), path)

\* directory::each_file(directory, load_file, "\\.rb$")
RECURSIVE EachFile(_, _, _)
EachFileAfterLoad(m1, directory, i) ==
    IF m1.exc # NoException THEN m1 ELSE EachFile(m1, directory, i + 1)

EachFile(m, directory, i) ==
    IF i > Len(DirListing(directory)) THEN m
    ELSE IF ~MatchesRb(DirListing(directory)[i]) THEN EachFile(m, directory, i + 1)
    ELSE EachFileAfterLoad(load_file(m, PathJoin(directory, DirListing(directory)[i])),
                           directory, i)

\* the loop of load_facts over _search_paths
RECURSIVE LoadFactsLoop(_, _, _)
LoadFactsAfterDirectory(m1, directories, i) ==
    IF NextElement(m1, directories).exc # NoException
    THEN NextElement(m1, directories)
    ELSE LoadFactsLoop(NextElement(m1, directories), directories, i + 1)

LoadFactsLoop(m, directories, i) ==
    IF i > Len(directories) THEN m
    ELSE LoadFactsAfterDirectory(
            EachFile(Log(m, <<"scan", directories[i]>>), directories[i], 1),
            directories, i)

LoadFactsDone(m1) ==
    IF m1.exc # NoException THEN m1 ELSE [m1 EXCEPT !._loaded_all = TRUE]

load_facts_ignores_flag(m) == LoadFactsDone(LoadFactsLoop(m, m._search_paths, 1))

\* module::load_facts
load_facts(m) ==
    IF m._loaded_all THEN m
    ELSE LoadFactsDone(LoadFactsLoop(m, m._search_paths, 1))

\* the loop of load_fact over _search_paths, looking for filename
RECURSIVE LoadByName(_, _, _, _)
LoadByNameAfterLoad(m1, directories, filename, i) ==
    IF NextElement(m1, directories).exc # NoException
    THEN NextElement(m1, directories)
    ELSE LoadByName(NextElement(m1, directories), directories, filename, i + 1)

LoadByName_first_match(m, directories, filename, i) ==
    IF i > Len(directories) THEN m
    ELSE IF ~is_regular_file(PathJoin(directories[i], filename))
         THEN LoadByName(m, directories, filename, i + 1)
    ELSE load_file(m, PathJoin(directories[i], filename))

LoadByName(m, directories, filename, i) ==
    IF i > Len(directories) THEN m
    ELSE IF ~is_regular_file(PathJoin(directories[i], filename))
         THEN LoadByName(m, directories, filename, i + 1)
    ELSE LoadByNameAfterLoad(load_file(m, PathJoin(directories[i], filename)),
                             directories, filename, i)

\* load_fact after load_facts: the fact, or nil when it was not found
LoadFactAfterDiscovery(m3, fact_name) ==
    IF m3.exc # NoException THEN m3
    ELSE IF fact_name \in DOMAIN m3._facts THEN Return(m3, FactSelf(fact_name))
    ELSE Return(Log(m3, <<"LOG_DEBUG", <<"not found">>>>), nil_value)

\* load_fact that loads all the custom facts before it looks at the collection
LoadFactFromCollection_discovers_first(m2, name, fact_name) ==
    IF load_facts(m2).exc = NoException /\ fact_name \in DOMAIN load_facts(m2)._facts
    THEN Return(load_facts(m2), FactSelf(fact_name))
    ELSE IF ~is_nil(Lookup(m2._collection, fact_name))
    THEN create_fact(load_facts(m2), normalize(name))
    ELSE LoadFactAfterDiscovery(load_facts(m2), fact_name)

\* load_fact once the collection is populated: a fact of the collection is
\* wrapped, anything else needs all the custom facts loaded
LoadFactFromCollection(m2, name, fact_name) ==
    IF ~is_nil(Lookup(m2._collection, fact_name))
    THEN create_fact(m2, normalize(name))
    ELSE LoadFactAfterDiscovery(load_facts(m2), fact_name)

\* load_fact after the search by file name (scanned: whether it took place)
LoadFactAfterScan(m1, scanned, name, fact_name) ==
    IF m1.exc # NoException THEN m1
    ELSE IF scanned /\ fact_name \in DOMAIN m1._facts THEN Return(m1, FactSelf(fact_name))
    ELSE LoadFactFromCollection(facts(m1), name, fact_name)

\* load_fact without the check of _facts that comes first
load_fact_scans_when_cached(m, name) ==
    LoadFactAfterScan(
        IF ~m._loaded_all
        THEN LoadByName(m, m._search_paths, Append(to_string(normalize(name)), ".rb"), 1)
        ELSE m,
        ~m._loaded_all, name, to_string(normalize(name)))

\* module::load_fact
load_fact(m, name) ==
    IF to_string(normalize(name)) \in DOMAIN m._facts
    THEN Return(m, FactSelf(to_string(normalize(name))))
    ELSE LoadFactAfterScan(
            IF ~m._loaded_all
            THEN LoadByName(m, m._search_paths, Append(to_string(normalize(name)), ".rb"), 1)
            ELSE m,
            ~m._loaded_all, name, to_string(normalize(name)))

\* the loop of resolve_facts over _facts (a std::map: in key order)
RECURSIVE ResolveLoop(_, _)
ResolveLoop(m, keys) ==
    IF keys = {} THEN m
    ELSE ResolveLoop(FactValue(m, CHOOSE x \in keys : TRUE),
                     keys \ {CHOOSE x \in keys : TRUE})

ResolveAll(m1) == ResolveLoop(m1, DOMAIN m1._facts)

resolve_facts_discovers_last(m) == load_facts(ResolveAll(facts(m)))

\* module::resolve_facts
resolve_facts(m) == ResolveAll(load_facts(facts(m)))

\* the collection as ruby_to_hash reads it after resolve_facts
CollectionHash(m1) == Return(m1, [type |-> "Hash", str |-> facts(m1)._collection])

\* module::ruby_list / ruby_to_hash / ruby_each: resolve, then read the collection
ruby_to_hash(m) == CollectionHash(resolve_facts(m))

(***************************************************************************)
(* The state machine: one module, its collection and the interpreter,     *)
(* driven by the Ruby code that calls the Facter entry points.            *)
(***************************************************************************)
VARIABLES
    _collection,                \* the native collection: name -> value
    _facts,                     \* module::_facts: name -> fact object
    gc_registered,              \* addresses registered with the collector
    _search_paths,
    _additional_search_paths,
    _external_search_paths,
    _loaded_files,
    _loaded_all,
    _debug_messages,
    _warning_messages,
    FACTERLIB,                  \* the environment variable
    executed,                   \* path -> executions since construction
    executed_since_reset,       \* path -> executions since the last reset
    once_emitted,               \* <<severity, message>> -> lines debugonce/warnonce wrote
    call,                       \* the last entry point call and its outcome
    interpreter,                \* the Ruby API, and what the constant Facter is bound to
    bridge,                     \* whether the module is constructed, and _previous_facter
    session,                    \* g_context and the ruby_context objects made so far
    scopes,                     \* the scoped_env objects alive, innermost last
    frames                      \* the calls in progress when calls are followed
                                \* step by step, innermost last

vars == << _collection, _facts, gc_registered, _search_paths,
           _additional_search_paths, _external_search_paths, _loaded_files,
           _loaded_all, _debug_messages, _warning_messages, FACTERLIB,
           executed, executed_since_reset, once_emitted, call,
           interpreter, bridge, session, scopes, frames >>

EmptyMap == [x \in {} |-> nil_value]

\* the record a call works on, from the current state
Module ==
    [ _collection |-> _collection, _facts |-> _facts, gc_registered |-> gc_registered,
      _search_paths |-> _search_paths,
      _additional_search_paths |-> _additional_search_paths,
      _external_search_paths |-> _external_search_paths,
      _loaded_files |-> _loaded_files, _loaded_all |-> _loaded_all,
      _debug_messages |-> _debug_messages, _warning_messages |-> _warning_messages,
      FACTERLIB |-> FACTERLIB, executed |-> executed,
      executed_since_reset |-> executed_since_reset, once_emitted |-> once_emitted,
      dangling |-> "stale",
      log |-> << >>, exc |-> NoException, ret |-> nil_value ]

\* what reset and clear discard, as it was when the call was made
Before(m) ==
    [ facts |-> DOMAIN m._facts,
      registered |-> DOMAIN m.gc_registered,
      additional |-> m._additional_search_paths,
      external |-> m._external_search_paths,
      loaded |-> m._loaded_files,
      all |-> m._loaded_all ]

NothingBefore ==
    [ facts |-> {}, registered |-> {}, additional |-> << >>, external |-> << >>,
      loaded |-> {}, all |-> FALSE ]

\* a call as the variable call records it: r is the record the call left
CallRecord(op, argv, block, r, before) ==
    [op |-> op, argv |-> argv, block |-> block, ret |-> r.ret, exc |-> r.exc,
     log |-> r.log, before |-> before]

\* a lookup, flush or search: call records that one was made, nothing of it
OtherCall ==
    [op |-> "other", argv |-> << >>, block |-> NoBlock, ret |-> nil_value,
     exc |-> NoException, log |-> << >>, before |-> NothingBefore]

NoCall == [OtherCall EXCEPT !.op = "new"]

\* the fields of the module after a call, or a step of one, left the record r
CommitFields(r) ==
    /\ _collection' = r._collection
    /\ _facts' = r._facts
    /\ gc_registered' = r.gc_registered
    /\ _search_paths' = r._search_paths
    /\ _additional_search_paths' = r._additional_search_paths
    /\ _external_search_paths' = r._external_search_paths
    /\ _loaded_files' = r._loaded_files
    /\ _loaded_all' = r._loaded_all
    /\ _debug_messages' = r._debug_messages
    /\ _warning_messages' = r._warning_messages
    /\ FACTERLIB' = r.FACTERLIB
    /\ executed' = r.executed
    /\ executed_since_reset' = r.executed_since_reset
    /\ once_emitted' = r.once_emitted

\* the module state after a call that left the record r
Commit(r) ==
    /\ CommitFields(r)
    /\ UNCHANGED << interpreter, bridge, session, scopes, frames >>

\* module::module: the state after construction
Init ==
    /\ FACTERLIB \in FacterlibValues
    /\ \E paths \in ConstructionPaths, moved_from \in MovedFromStates :
          _search_paths =
              initialize_search_paths(
                  [FACTERLIB |-> FACTERLIB, _search_paths |-> << >>,
                   _additional_search_paths |-> << >>],
                  paths, moved_from)._search_paths
    /\ _additional_search_paths = << >>
    /\ _external_search_paths = << >>
    /\ _collection = EmptyMap
    /\ _facts = EmptyMap
    /\ gc_registered = EmptyMap
    /\ _loaded_files = {}
    /\ _loaded_all = FALSE
    /\ _debug_messages = {}
    /\ _warning_messages = {}
    /\ executed = EmptyMap
    /\ executed_since_reset = EmptyMap
    /\ once_emitted = EmptyMap
    /\ call = NoCall
    /\ interpreter = [api |-> "present", initialized |-> TRUE, Facter |-> <<"module", 0>>]
    /\ bridge = [live |-> TRUE, _previous_facter |-> <<"nil">>, before |-> <<"undefined">>]
    /\ session = [g_context |-> 0, contexts |-> << >>]
    /\ scopes = << >>
    /\ frames = << >>

(***************************************************************************)
(* What the calling Ruby code passes.                                     *)
(***************************************************************************)
ValueNames == { Str(<<"o", "s">>), Sym(<<"K">>), Str(<<"N", "O">>) }
FactNames == { Sym(<<"O", "S">>), Sym(<<"m">>), Fixnum(<<"7">>) }
AddNames == { Sym(<<"N", "o">>) }
DefineNames == { Str(<<"O", "s">>) }
AddOptions == { Hash(<<"bogus">>), Fixnum(<<"1">>) }
AddArguments ==
    { <<name>> : name \in AddNames }
    \cup { <<name, options>> : name \in AddNames, options \in AddOptions }
Blocks == { Setcode(Str(<<"BSD">>)), RaisingBlock }
Messages == { Str(<<"x">>), Str(<<"y">>) }
SearchArguments == { << Str("/d1") >> }
PathArguments == { << Str("/d2") >>, << Str("/nx"), Fixnum(<<"7">>), Str("/d2/../d1") >> }
ExternalArguments == { << Str("/ext"), Fixnum(<<"7">>) >> }
Commands == { Str(<<"echo hi">>), Str(<<"true">>), Str(<<"false">>), Str(<<"exit 3">>) }
OnFailValues ==
    { Sym(<<"raise">>), Str(<<"raise">>), Sym(<<"default">>), Str(<<"default">>), nil_value }
ExecuteArguments ==
    { <<command>> : command \in Commands }
    \cup { <<command, NoOnFail>> : command \in Commands }
    \cup { <<command, OnFail(v)>> : command \in Commands, v \in OnFailValues }

(***************************************************************************)
(* The entry points, called from the top level.                           *)
(***************************************************************************)
\* the resolutions of the fact that name addresses
ResolutionsOf(name) ==
    IF to_string(normalize(name)) \in DOMAIN _facts
    THEN Len(_facts[to_string(normalize(name))].resolutions)
    ELSE 0

Add ==
    \E argv \in AddArguments, block \in Blocks :
        /\ ResolutionsOf(argv[1]) < MaxResolutions
        /\ Commit(ruby_add(Module, argv, block))
        \* of the arguments, call keeps the name
        /\ call' = CallRecord("add", <<argv[1]>>, NoBlock, ruby_add(Module, argv, block),
                              NothingBefore)

DefineFact ==
    \E name \in DefineNames, block \in {NoBlock, RaisingBlock} :
        /\ Commit(ruby_define_fact(Module, <<name>>, block))
        /\ call' = CallRecord("define_fact", <<name>>, NoBlock,
                              ruby_define_fact(Module, <<name>>, block), NothingBefore)

\* module::ruby_value
Value ==
    /\ \E name \in ValueNames : Commit(fact_value(Module, name))
    /\ call' = OtherCall

\* module::ruby_fact
Fact ==
    /\ \E name \in FactNames : Commit(load_fact(Module, name))
    /\ call' = OtherCall

Flush ==
    /\ Commit(ruby_flush(Module))
    /\ call' = OtherCall

\* module::ruby_list, ruby_to_hash, ruby_each
ToHash ==
    /\ Commit(ruby_to_hash(Module))
    /\ call' = OtherCall

\* module::ruby_loadfacts
Loadfacts ==
    /\ Commit(Return(load_facts(Module), nil_value))
    /\ call' = OtherCall

Reset ==
    \E moved_from \in MovedFromStates :
        /\ Commit([ruby_reset(Module, moved_from) EXCEPT !.executed_since_reset = EmptyMap])
        /\ call' = CallRecord("reset", << >>, NoBlock, ruby_reset(Module, moved_from),
                              Before(Module))

Clear ==
    \E moved_from \in MovedFromStates :
        /\ Commit([ruby_clear(Module, moved_from) EXCEPT !.executed_since_reset = EmptyMap])
        /\ call' = CallRecord("clear", << >>, NoBlock, ruby_clear(Module, moved_from),
                              Before(Module))

Search ==
    /\ Len(_additional_search_paths) < MaxSearch
    /\ \E argv \in SearchArguments : Commit(ruby_search(Module, argv, 1))
    /\ call' = OtherCall

\* search with arguments that are not all strings, not all directories
SearchPaths ==
    /\ Len(_additional_search_paths) < MaxSearch
    /\ \E argv \in PathArguments :
          /\ Commit(ruby_search(Module, argv, 1))
          /\ call' = CallRecord("search", argv, NoBlock, ruby_search(Module, argv, 1),
                                NothingBefore)

SearchPath ==
    /\ Commit(ruby_search_path(Module))
    /\ call' = CallRecord("search_path", << >>, NoBlock, ruby_search_path(Module),
                          NothingBefore)

SearchExternal ==
    /\ Len(_external_search_paths) < MaxExternal
    /\ \E argv \in ExternalArguments :
          /\ Commit(ruby_search_external(Module, argv))
          /\ call' = CallRecord("search_external", argv, NoBlock,
                                ruby_search_external(Module, argv), NothingBefore)

SearchExternalPath ==
    /\ Commit(ruby_search_external_path(Module))
    /\ call' = CallRecord("search_external_path", << >>, NoBlock,
                          ruby_search_external_path(Module), NothingBefore)

Debug ==
    \E message \in Messages :
        /\ Commit(ruby_debug(Module, message))
        /\ call' = CallRecord("debug", <<message>>, NoBlock, ruby_debug(Module, message),
                              NothingBefore)

Debugonce ==
    \E message \in Messages :
        /\ Commit(ruby_debugonce(Module, message))
        /\ call' = CallRecord("debugonce", <<message>>, NoBlock,
                              ruby_debugonce(Module, message), NothingBefore)

Warn ==
    \E message \in Messages :
        /\ Commit(ruby_warn(Module, message))
        /\ call' = CallRecord("warn", <<message>>, NoBlock, ruby_warn(Module, message),
                              NothingBefore)

Warnonce ==
    \E message \in Messages :
        /\ Commit(ruby_warnonce(Module, message))
        /\ call' = CallRecord("warnonce", <<message>>, NoBlock,
                              ruby_warnonce(Module, message), NothingBefore)

\* Execution.exec and Execution.execute touch no state of the module
ModuleUnchanged ==
    UNCHANGED << _collection, _facts, gc_registered, _search_paths,
                 _additional_search_paths, _external_search_paths, _loaded_files,
                 _loaded_all, _debug_messages, _warning_messages, FACTERLIB,
                 executed, executed_since_reset, once_emitted,
                 interpreter, bridge, session, scopes, frames >>

ExecutionCall(op, argv, result) ==
    [OtherCall EXCEPT !.op = op, !.argv = argv, !.ret = result.ret, !.exc = result.exc]

Exec ==
    /\ \E command \in Commands :
          call' = ExecutionCall("exec", <<command>>, ruby_exec(command))
    /\ ModuleUnchanged

Execute ==
    /\ \E argv \in ExecuteArguments :
          call' = ExecutionCall("execute", argv, ruby_execute(argv))
    /\ ModuleUnchanged

\* discovery and loading: lookups, full passes, resets, a runtime search path
Next ==
    \/ Value
    \/ Fact
    \/ Flush
    \/ ToHash
    \/ Loadfacts
    \/ Reset
    \/ Clear
    \/ Search

Spec == Init /\ [][Next]_vars

\* facts defined from the top level, looked up and reset
NextFacts ==
    \/ Add
    \/ DefineFact
    \/ Value
    \/ Reset

SpecFacts == Init /\ [][NextFacts]_vars

\* the search path lists, a full pass over them, and resets
NextPaths ==
    \/ SearchPaths
    \/ SearchPath
    \/ SearchExternal
    \/ SearchExternalPath
    \/ Loadfacts
    \/ Reset
    \/ Clear

SpecPaths == Init /\ [][NextPaths]_vars

\* the logging entry points, plugin files that log, and resets
NextLog ==
    \/ Debug
    \/ Debugonce
    \/ Warn
    \/ Warnonce
    \/ Loadfacts
    \/ Reset
    \/ Clear

SpecLog == Init /\ [][NextLog]_vars

\* the command execution proxy
NextExec ==
    \/ Exec
    \/ Execute

SpecExec == Init /\ [][NextExec]_vars

(***************************************************************************)
(* The session container of the gem: ruby_context, g_context and the      *)
(* exported initialize_facter and shutdown_facter.  A ruby_context owns   *)
(* one collection and one module; here a module is what it does to the    *)
(* constant Facter, and a context is the record of what it still holds.   *)
(***************************************************************************)
\* ruby_context objects made when a further initialize_facter is called
MaxContexts == 3

\* what the constant Facter is bound to when nothing has defined it, and
\* when the Ruby implementation of Facter has
Undefined == <<"undefined">>
RubyFacter == <<"ruby">>
\* a nil VALUE held in _previous_facter
NilBinding == <<"nil">>

\* the record a call of the container works on, from the current state
Host ==
    [ api |-> interpreter.api, initialized |-> interpreter.initialized,
      Facter |-> interpreter.Facter,
      g_context |-> session.g_context, contexts |-> session.contexts,
      dangling |-> "stale",
      log |-> << >>, exc |-> NoException, ret |-> 0 ]

\* api::initialize: whether the interpreter is initialized when it returns
InitializeOutcomes == {TRUE, FALSE}

\* module::module, as far as the container sees it: the checks of the API,
\* then the constant Facter is removed if defined, kept in _previous_facter
\* (returned here), and bound to the new module
ModuleDefine(h, id) ==
    IF h.api = "absent" \/ ~h.initialized
    THEN Raise(Log(h, <<"throw", "runtime_error">>), "runtime_error")
    ELSE Return([h EXCEPT !.Facter = <<"module", id>>],
                IF h.Facter = Undefined THEN NilBinding ELSE h.Facter)

\* module::~module: the constant is removed, and bound again to
\* _previous_facter unless that is nil
ModuleUndefine(h, previous) ==
    IF h.api = "absent" THEN h
    ELSE [h EXCEPT !.Facter = IF previous = NilBinding THEN Undefined ELSE previous]

\* ruby_context::ruby_context, called by new: the context is made only if
\* the constructor returns
ruby_context(h) ==
    LET h1 == ModuleDefine(Log(h, <<"new", "collection">>), Len(h.contexts) + 1)
    IN  IF h1.exc # NoException
        THEN Log(h1, <<"delete", "collection">>)
        ELSE Return([Log(h1, <<"new", "module">>) EXCEPT
                        !.contexts = Append(@, [collection |-> TRUE, module |-> TRUE,
                                                canary |-> TRUE, previous |-> h1.ret,
                                                deleted |-> FALSE, at_exit |-> FALSE])],
                    Len(h.contexts) + 1)

\* ruby_context::release
release(h, id) ==
    LET h1 == IF h.contexts[id].module
              THEN ModuleUndefine(Log(h, <<"delete", "module">>), h.contexts[id].previous)
              ELSE h
        h2 == IF h.contexts[id].collection THEN Log(h1, <<"delete", "collection">>) ELSE h1
    IN  [h2 EXCEPT !.contexts[id].module = FALSE,
                   !.contexts[id].collection = FALSE,
                   !.contexts[id].canary = FALSE]

\* ruby_context::cleanup: the collector deletes the context, whose
\* destructor releases it
cleanup(h, id) == [release(h, id) EXCEPT !.contexts[id].deleted = TRUE]

\* initialize_facter
initialize_facter(h, outcome) ==
    IF h.api = "absent" THEN h
    ELSE LET h1 == ruby_context([h EXCEPT !.initialized = @ \/ outcome])
         IN  IF h1.exc # NoException THEN h1
             ELSE [h1 EXCEPT !.g_context = h1.ret]

\* shutdown_facter without the release of the context
shutdown_facter_forgets_release(h) ==
    [h EXCEPT !.g_context = 0]

\* g_context->release() on a context that cleanup has deleted: the members
\* are read from freed memory, which still holds them or ends the process
ReleaseDeleted(h) ==
    IF h.dangling = "crash"
    THEN Raise(Log(h, <<"use after delete", h.g_context>>), Crash)
    ELSE [release(Log(h, <<"use after delete", h.g_context>>), h.g_context)
             EXCEPT !.g_context = 0]

\* shutdown_facter
shutdown_facter(h) ==
    IF h.g_context # 0
    THEN IF h.contexts[h.g_context].deleted
         THEN ReleaseDeleted(h)
         ELSE [release(h, h.g_context) EXCEPT !.g_context = 0]
    ELSE h

\* the interpreter shuts down: it frees every data object, registered or
\* not, and so calls cleanup for the context
finalize(h, id) == [cleanup(h, id) EXCEPT !.contexts[id].at_exit = TRUE]

\* the interpreter and the container after a call that left the record h
CommitHost(h) ==
    /\ interpreter' = [api |-> h.api, initialized |-> h.initialized, Facter |-> h.Facter]
    /\ session' = [g_context |-> h.g_context, contexts |-> h.contexts]
    /\ UNCHANGED << _collection, _facts, gc_registered, _search_paths,
                    _additional_search_paths, _external_search_paths, _loaded_files,
                    _loaded_all, _debug_messages, _warning_messages, FACTERLIB,
                    executed, executed_since_reset, once_emitted, bridge, scopes,
                    frames >>

HostCall(op, h) == [OtherCall EXCEPT !.op = op, !.exc = h.exc, !.log = h.log]

\* a process in which no module is constructed yet
InitSession ==
    /\ interpreter \in
          { i \in [api : {"absent", "present"}, initialized : BOOLEAN,
                   Facter : {Undefined, RubyFacter}] :
              i.api = "absent" => (~i.initialized /\ i.Facter = Undefined) }
    /\ session = [g_context |-> 0, contexts |-> << >>]
    /\ bridge = [live |-> FALSE, _previous_facter |-> NilBinding, before |-> Undefined]
    /\ scopes = << >>
    /\ frames = << >>
    /\ FACTERLIB = [set |-> FALSE, val |-> << >>]
    /\ _search_paths = << >>
    /\ _additional_search_paths = << >>
    /\ _external_search_paths = << >>
    /\ _collection = EmptyMap
    /\ _facts = EmptyMap
    /\ gc_registered = EmptyMap
    /\ _loaded_files = {}
    /\ _loaded_all = FALSE
    /\ _debug_messages = {}
    /\ _warning_messages = {}
    /\ executed = EmptyMap
    /\ executed_since_reset = EmptyMap
    /\ once_emitted = EmptyMap
    /\ call = NoCall

InitializeFacter ==
    /\ Len(session.contexts) < MaxContexts
    /\ \E outcome \in InitializeOutcomes :
          /\ CommitHost(initialize_facter(Host, outcome))
          /\ call' = HostCall("initialize_facter", initialize_facter(Host, outcome))

ShutdownFacter ==
    /\ CommitHost(shutdown_facter(Host))
    /\ call' = HostCall("shutdown_facter", shutdown_facter(Host))

\* a collection of the interpreter: a context whose canary is no longer
\* registered is deleted
Collect ==
    \E id \in 1..Len(session.contexts) :
        /\ ~session.contexts[id].canary
        /\ ~session.contexts[id].deleted
        /\ CommitHost(cleanup(Host, id))
        /\ call' = HostCall("cleanup", cleanup(Host, id))

NextSession ==
    \/ InitializeFacter
    \/ ShutdownFacter
    \/ Collect

SpecSession == InitSession /\ [][NextSession]_vars

\* the same container in an interpreter that may shut down at any time:
\* from then on no context is made, and the host may still call
\* shutdown_facter
VmDown == \E id \in 1..Len(session.contexts) : session.contexts[id].at_exit

HostRunning == call.exc # Crash

StartFacter == HostRunning /\ ~VmDown /\ InitializeFacter

StopFacter ==
    /\ HostRunning
    /\ \E outcome \in DanglingOutcomes :
          /\ CommitHost(shutdown_facter([Host EXCEPT !.dangling = outcome]))
          /\ call' = HostCall("shutdown_facter",
                              shutdown_facter([Host EXCEPT !.dangling = outcome]))

CollectGarbage == HostRunning /\ ~VmDown /\ Collect

Finalize ==
    /\ HostRunning
    /\ \E id \in 1..Len(session.contexts) :
          /\ ~session.contexts[id].deleted
          /\ CommitHost(finalize(Host, id))
          /\ call' = HostCall("finalize", finalize(Host, id))

NextTeardown ==
    \/ StartFacter
    \/ StopFacter
    \/ CollectGarbage
    \/ Finalize

SpecTeardown == InitSession /\ [][NextTeardown]_vars

(***************************************************************************)
(* The lifetime of a module over a collection that outlives it.           *)
(***************************************************************************)
\* what the constant Facter can be bound to before a module is constructed:
\* nothing, the Ruby implementation, or the value nil
PreviousBindings == { Undefined, RubyFacter, NilBinding }

\* the members of a module that does not exist
NoModule ==
    /\ _facts' = EmptyMap
    /\ _search_paths' = << >>
    /\ _additional_search_paths' = << >>
    /\ _external_search_paths' = << >>
    /\ _loaded_files' = {}
    /\ _loaded_all' = FALSE
    /\ _debug_messages' = {}
    /\ _warning_messages' = {}

\* an initialized interpreter and an empty collection, no module yet
InitLifetime ==
    /\ interpreter \in [api : {"present"}, initialized : {TRUE}, Facter : PreviousBindings]
    /\ bridge = [live |-> FALSE, _previous_facter |-> NilBinding, before |-> Undefined]
    /\ session = [g_context |-> 0, contexts |-> << >>]
    /\ scopes = << >>
    /\ frames = << >>
    /\ FACTERLIB \in FacterlibValues
    /\ _search_paths = << >>
    /\ _additional_search_paths = << >>
    /\ _external_search_paths = << >>
    /\ _collection = EmptyMap
    /\ _facts = EmptyMap
    /\ gc_registered = EmptyMap
    /\ _loaded_files = {}
    /\ _loaded_all = FALSE
    /\ _debug_messages = {}
    /\ _warning_messages = {}
    /\ executed = EmptyMap
    /\ executed_since_reset = EmptyMap
    /\ once_emitted = EmptyMap
    /\ call = NoCall

\* module::module over the collection
Construct ==
    /\ ~bridge.live
    /\ \E paths \in ConstructionPaths, moved_from \in MovedFromStates :
          _search_paths' =
              initialize_search_paths(
                  [FACTERLIB |-> FACTERLIB, _search_paths |-> << >>,
                   _additional_search_paths |-> << >>],
                  paths, moved_from)._search_paths
    /\ interpreter' = [interpreter EXCEPT !.Facter = ModuleDefine(Host, 0).Facter]
    /\ bridge' = [live |-> TRUE, _previous_facter |-> ModuleDefine(Host, 0).ret,
                  before |-> interpreter.Facter]
    /\ call' = HostCall("module", ModuleDefine(Host, 0))
    /\ UNCHANGED << _collection, _facts, gc_registered, _additional_search_paths,
                    _external_search_paths, _loaded_files, _loaded_all, _debug_messages,
                    _warning_messages, FACTERLIB, executed, executed_since_reset,
                    once_emitted, session, scopes, frames >>

\* a lookup made of the module while it exists
LiveValue == bridge.live /\ Value

\* a registration made of the module while it exists
LiveAdd == bridge.live /\ Add

\* module::~module
Teardown ==
    /\ bridge.live
    /\ _collection' = clear_facts(Module, FALSE)._collection
    /\ gc_registered' = clear_facts(Module, FALSE).gc_registered
    /\ NoModule
    /\ interpreter' = [interpreter EXCEPT
                          !.Facter = ModuleUndefine(Host, bridge._previous_facter).Facter]
    /\ bridge' = [bridge EXCEPT !.live = FALSE]
    /\ call' = [OtherCall EXCEPT !.op = "~module", !.before = Before(Module)]
    /\ UNCHANGED << FACTERLIB, executed, executed_since_reset, once_emitted,
                    session, scopes, frames >>

NextLifetime ==
    \/ Construct
    \/ LiveValue
    \/ LiveAdd
    \/ Teardown

SpecLifetime == InitLifetime /\ [][NextLifetime]_vars

\* the entry points that insert into _facts and remove from it, called of
\* the module while it exists
LiveDefineFact == bridge.live /\ DefineFact

LiveReset == bridge.live /\ Reset

LiveClear == bridge.live /\ Clear

NextPins ==
    \/ Construct
    \/ LiveValue
    \/ LiveAdd
    \/ LiveDefineFact
    \/ LiveReset
    \/ LiveClear
    \/ Teardown

\* an interpreter in which Facter is not defined and FACTERLIB is not set
InitPins ==
    /\ InitLifetime
    /\ interpreter.Facter = Undefined
    /\ ~FACTERLIB.set

SpecPins == InitPins /\ [][NextPins]_vars

(***************************************************************************)
(* Plugin files that call search while a loop over _search_paths runs     *)
(* them: the module is constructed with the directory /d3, whose file     *)
(* s.rb calls Facter.search.                                              *)
(***************************************************************************)
NestedPaths == { <<"/d3">>, <<"/d2", "/d3">> }
NestedNames == { Sym(<<"S">>), Str(<<"o", "s">>), Str(<<"z">>) }

InitNested ==
    /\ FACTERLIB \in FacterlibValues
    /\ \E paths \in NestedPaths, moved_from \in MovedFromStates :
          _search_paths =
              initialize_search_paths(
                  [FACTERLIB |-> FACTERLIB, _search_paths |-> << >>,
                   _additional_search_paths |-> << >>],
                  paths, moved_from)._search_paths
    /\ _additional_search_paths = << >>
    /\ _external_search_paths = << >>
    /\ _collection = EmptyMap
    /\ _facts = EmptyMap
    /\ gc_registered = EmptyMap
    /\ _loaded_files = {}
    /\ _loaded_all = FALSE
    /\ _debug_messages = {}
    /\ _warning_messages = {}
    /\ executed = EmptyMap
    /\ executed_since_reset = EmptyMap
    /\ once_emitted = EmptyMap
    /\ call = NoCall
    /\ interpreter = [api |-> "present", initialized |-> TRUE, Facter |-> <<"module", 0>>]
    /\ bridge = [live |-> TRUE, _previous_facter |-> NilBinding, before |-> Undefined]
    /\ session = [g_context |-> 0, contexts |-> << >>]
    /\ scopes = << >>
    /\ frames = << >>

\* the process runs as long as it has not died
Running == call.exc # Crash

\* module::ruby_loadfacts
NestedLoadfacts ==
    /\ Running
    /\ \E outcome \in DanglingOutcomes :
          /\ Commit(Return(load_facts([Module EXCEPT !.dangling = outcome]), nil_value))
          /\ call' = CallRecord("loadfacts", << >>, NoBlock,
                                load_facts([Module EXCEPT !.dangling = outcome]),
                                NothingBefore)

\* module::ruby_fact
NestedFact ==
    /\ Running
    /\ \E name \in NestedNames, outcome \in DanglingOutcomes :
          /\ Commit(load_fact([Module EXCEPT !.dangling = outcome], name))
          /\ call' = CallRecord("fact", <<name>>, NoBlock,
                                load_fact([Module EXCEPT !.dangling = outcome], name),
                                NothingBefore)

\* module::ruby_search
NestedSearch ==
    /\ Running
    /\ Len(_additional_search_paths) < MaxSearch
    /\ Commit(ruby_search(Module, << Str("/d3") >>, 1))
    /\ call' = CallRecord("search", << Str("/d3") >>, NoBlock,
                          ruby_search(Module, << Str("/d3") >>, 1), NothingBefore)

\* module::ruby_reset
NestedReset == Running /\ Reset

NextNested ==
    \/ NestedLoadfacts
    \/ NestedFact
    \/ NestedSearch
    \/ NestedReset

SpecNested == InitNested /\ [][NextNested]_vars

(***************************************************************************)
(* Lookups and discovery followed step by step.  A frame is a call in     *)
(* progress: load_facts at a file of a directory, load_fact at one of its *)
(* stages, or rb_load of a file at one of the calls the file makes.  The  *)
(* calls a file makes of value, fact and loadfacts open a frame of their  *)
(* own; its other calls are taken whole.                                  *)
(***************************************************************************)
\* calls in progress at once
MaxDepth == 8

NoPath == << "", << >> >>
Frame(pc, path, name, value, i, j) ==
    [pc |-> pc, path |-> path, name |-> name, value |-> value, i |-> i, j |-> j]

\* a call of load_facts, of load_fact(name) (for value(name) if value is set)
\* and rb_load of the file at path, each at its beginning
LoadFactsFrame == Frame("load_facts", NoPath, nil_value, FALSE, 1, 0)
LoadFactFrame(name, value) == Frame("load_fact", NoPath, name, value, 0, 0)
FileFrame(path) == Frame("file", path, nil_value, FALSE, 1, 0)

Top == frames[Len(frames)]
Pop == SubSeq(frames, 1, Len(frames) - 1)
Replace(f) == [frames EXCEPT ![Len(frames)] = f]
KeyOf(f) == to_string(normalize(f.name))

StepUnchanged == UNCHANGED << interpreter, bridge, session, scopes, call >>

\* module::load_file called from the frame that f replaces
LoadFileStep(path, f) ==
    IF path \in _loaded_files
    THEN /\ frames' = Replace(f)
         /\ CommitFields(Module)
    ELSE /\ Len(frames) < MaxDepth
         /\ frames' = Append(Replace(f), FileFrame(path))
         /\ CommitFields(BeginLoad(Module, path))

\* module::load_facts, one step of it
LoadFactsStep ==
    /\ frames # << >>
    /\ Top.pc = "load_facts"
    /\ StepUnchanged
    /\ IF Top.j = 0
       THEN \* the check of _loaded_all on entry
            /\ frames' = IF _loaded_all THEN Pop ELSE Replace([Top EXCEPT !.j = 1])
            /\ CommitFields(Module)
       ELSE IF Top.i > Len(_search_paths)
       THEN /\ frames' = Pop
            /\ CommitFields([Module EXCEPT !._loaded_all = TRUE])
       ELSE IF Top.j > Len(DirListing(_search_paths[Top.i]))
       THEN /\ frames' = Replace([Top EXCEPT !.i = @ + 1, !.j = 1])
            /\ CommitFields(Module)
       ELSE IF ~MatchesRb(DirListing(_search_paths[Top.i])[Top.j])
       THEN /\ frames' = Replace([Top EXCEPT !.j = @ + 1])
            /\ CommitFields(Module)
       ELSE LoadFileStep(PathJoin(_search_paths[Top.i],
                                  DirListing(_search_paths[Top.i])[Top.j]),
                         [Top EXCEPT !.j = @ + 1])

\* load_fact returns: value(name) then asks the fact it found for its value
ReturnFromLoadFact ==
    /\ frames' = Pop
    /\ IF Top.value /\ KeyOf(Top) \in DOMAIN _facts
       THEN CommitFields(ValueOfLoaded(Return(Module, FactSelf(KeyOf(Top)))))
       ELSE CommitFields(Module)

\* module::load_fact, one step of it
LoadFactStep ==
    /\ frames # << >>
    /\ Top.pc \in {"load_fact", "scan", "collection", "discovered"}
    /\ StepUnchanged
    /\ CASE Top.pc = "load_fact" ->
              IF KeyOf(Top) \in DOMAIN _facts THEN ReturnFromLoadFact
              ELSE /\ frames' = Replace([Top EXCEPT
                                            !.pc = IF _loaded_all THEN "collection" ELSE "scan",
                                            !.i = 1])
                   /\ CommitFields(Module)
         [] Top.pc = "scan" ->
              IF Top.i > Len(_search_paths)
              THEN IF KeyOf(Top) \in DOMAIN _facts THEN ReturnFromLoadFact
                   ELSE /\ frames' = Replace([Top EXCEPT !.pc = "collection"])
                        /\ CommitFields(Module)
              ELSE IF is_regular_file(PathJoin(_search_paths[Top.i],
                                               Append(KeyOf(Top), ".rb")))
              THEN LoadFileStep(PathJoin(_search_paths[Top.i], Append(KeyOf(Top), ".rb")),
                                [Top EXCEPT !.i = @ + 1])
              ELSE /\ frames' = Replace([Top EXCEPT !.i = @ + 1])
                   /\ CommitFields(Module)
         [] Top.pc = "collection" ->
              IF ~is_nil(Lookup(facts(Module)._collection, KeyOf(Top)))
              THEN /\ frames' = Replace([Top EXCEPT !.pc = "discovered"])
                   /\ CommitFields(create_fact(facts(Module), normalize(Top.name)))
              ELSE /\ Len(frames) < MaxDepth
                   /\ frames' = Append(Replace([Top EXCEPT !.pc = "discovered"]),
                                       LoadFactsFrame)
                   /\ CommitFields(facts(Module))
         [] Top.pc = "discovered" -> ReturnFromLoadFact

\* rb_load of a file, one call of the file
FileStep ==
    /\ frames # << >>
    /\ Top.pc = "file"
    /\ StepUnchanged
    /\ IF Top.i > Len(Script(Top.path))
       THEN /\ frames' = Pop
            /\ CommitFields(Module)
       ELSE IF Script(Top.path)[Top.i].op \in {"value", "fact"}
       THEN /\ Len(frames) < MaxDepth
            /\ frames' = Append(Replace([Top EXCEPT !.i = @ + 1]),
                                LoadFactFrame(Script(Top.path)[Top.i].argv[1],
                                              Script(Top.path)[Top.i].op = "value"))
            /\ CommitFields(Module)
       ELSE IF Script(Top.path)[Top.i].op = "loadfacts"
       THEN /\ Len(frames) < MaxDepth
            /\ frames' = Append(Replace([Top EXCEPT !.i = @ + 1]), LoadFactsFrame)
            /\ CommitFields(Module)
       ELSE \* a call that raises ends the file: load_file rescues it
            /\ frames' = IF Dispatch(Module, Script(Top.path)[Top.i]).exc # NoException
                         THEN Pop
                         ELSE Replace([Top EXCEPT !.i = @ + 1])
            /\ CommitFields(Rescue(Dispatch(Module, Script(Top.path)[Top.i]), Top.path))

StepNames == { Str(<<"o", "s">>), Sym(<<"m">>), Sym(<<"K">>), Str(<<"z">>) }

\* Ruby code outside any plugin file calls value or fact
CallLookup ==
    /\ frames = << >>
    /\ \E name \in StepNames, value \in BOOLEAN :
          frames' = << LoadFactFrame(name, value) >>
    /\ CommitFields(Module)
    /\ StepUnchanged

\* Ruby code outside any plugin file calls loadfacts
CallLoadfacts ==
    /\ frames = << >>
    /\ frames' = << LoadFactsFrame >>
    /\ CommitFields(Module)
    /\ StepUnchanged

\* the steps of the calls in progress
Step ==
    \/ LoadFactsStep
    \/ LoadFactStep
    \/ FileStep

NextSteps ==
    \/ CallLookup
    \/ CallLoadfacts
    \/ LoadFactsStep
    \/ LoadFactStep
    \/ FileStep

\* a call in progress runs on: the interpreter executes one call at a time
\* and nothing cancels it
SpecSteps == Init /\ [][NextSteps]_vars /\ WF_vars(Step)

(***************************************************************************)
(* scoped_env: an environment variable set for the lifetime of an object. *)
(* The variable of the model is FACTERLIB; a scope is the _resource of    *)
(* the object, with the value it set and the variable as it found it.     *)
(***************************************************************************)
\* scoped_env objects alive at once
MaxScopes == 3

\* the values a scope sets the variable to
ScopedValues == { << >>, <<"/d1">>, <<"/d2">> }

\* environment::get, environment::set and environment::clear
environment_get(env) == [was_set |-> env.set, value |-> IF env.set THEN env.val ELSE << >>]
environment_set(env, val) == [set |-> TRUE, val |-> val]
environment_clear(env) == [set |-> FALSE, val |-> << >>]

\* boost::optional<std::string>
None == << >>
Some(v) == << v >>

\* scoped_env::scoped_env: the _resource it keeps, and the environment after
scoped_env(env, var, val) ==
    [ _resource |-> << var, IF environment_get(env).was_set
                            THEN Some(environment_get(env).value) ELSE None >>,
      env |-> environment_set(env, val) ]

\* scoped_env::restore that sets the variable whether or not it was set
restore_always_sets(env, old) ==
    environment_set(env, IF old[2] # None THEN old[2][1] ELSE << >>)

\* scoped_env::restore
restore(env, old) ==
    IF old[2] # None
    THEN environment_set(env, old[2][1])
    ELSE environment_clear(env)

EnvUnchanged ==
    UNCHANGED << _collection, _facts, gc_registered, _search_paths,
                 _additional_search_paths, _external_search_paths, _loaded_files,
                 _loaded_all, _debug_messages, _warning_messages,
                 executed, executed_since_reset, once_emitted,
                 interpreter, bridge, session, frames >>

\* a process with no module, whose variable is unset, empty or a list
InitEnv ==
    /\ FACTERLIB \in FacterlibValues \cup { [set |-> TRUE, val |-> << >>] }
    /\ scopes = << >>
    /\ frames = << >>
    /\ interpreter = [api |-> "absent", initialized |-> FALSE, Facter |-> Undefined]
    /\ session = [g_context |-> 0, contexts |-> << >>]
    /\ bridge = [live |-> FALSE, _previous_facter |-> NilBinding, before |-> Undefined]
    /\ _search_paths = << >>
    /\ _additional_search_paths = << >>
    /\ _external_search_paths = << >>
    /\ _collection = EmptyMap
    /\ _facts = EmptyMap
    /\ gc_registered = EmptyMap
    /\ _loaded_files = {}
    /\ _loaded_all = FALSE
    /\ _debug_messages = {}
    /\ _warning_messages = {}
    /\ executed = EmptyMap
    /\ executed_since_reset = EmptyMap
    /\ once_emitted = EmptyMap
    /\ call = NoCall

\* a scoped_env is constructed in a scope nested in the ones alive
Acquire ==
    /\ Len(scopes) < MaxScopes
    /\ \E val \in ScopedValues :
          /\ FACTERLIB' = scoped_env(FACTERLIB, "FACTERLIB", val).env
          /\ scopes' = Append(scopes,
                              [ _resource |-> scoped_env(FACTERLIB, "FACTERLIB", val)._resource,
                                val |-> val, before |-> FACTERLIB ])
    /\ call' = [OtherCall EXCEPT !.op = "scoped_env"]
    /\ EnvUnchanged

\* the innermost scope is left: ~scoped_resource calls the deleter
Release ==
    /\ scopes # << >>
    /\ FACTERLIB' = restore(FACTERLIB, scopes[Len(scopes)]._resource)
    /\ scopes' = SubSeq(scopes, 1, Len(scopes) - 1)
    /\ call' = [OtherCall EXCEPT !.op = "restore"]
    /\ EnvUnchanged

NextEnv ==
    \/ Acquire
    \/ Release

SpecEnv == InitEnv /\ [][NextEnv]_vars

(***************************************************************************)
(* Properties.                                                            *)
(***************************************************************************)
\* the plugin files of the file system
PluginFiles ==
    { p \in {"/lp/facter", "/d1", "/d2"} \X {OsRb, MRb, BRb} : is_regular_file(p) }

\* C1 as stated: within one session each plugin file path is executed by the
\* interpreter at most once, whatever entry points are called, reset and
\* clear included.
C1_ExecutedAtMostOncePerSession ==
    \A path \in DOMAIN executed : executed[path] <= 1

\* C1 amended: between construction or a reset/clear and the next reset/clear,
\* each plugin file path is executed at most once; reset and clear empty the
\* loaded-file set, after which a file is executed again.
C1_ExecutedAtMostOnceBetweenResets ==
    \A path \in DOMAIN executed_since_reset : executed_since_reset[path] <= 1

\* a file loaded by a full pass, for the second time in the session and for
\* the first time since the last reset
C1_Witness ==
    /\ _loaded_all
    /\ <<"/d1", OsRb>> \in _loaded_files
    /\ <<"/d1", OsRb>> \in DOMAIN executed
    /\ executed[<<"/d1", OsRb>>] = 2
    /\ executed_since_reset[<<"/d1", OsRb>>] = 1

\* whether the command of the last Execution call failed
CommandFailed == ~ExecutionResult(to_string(call.argv[1])).success

\* what the command of the last Execution call wrote, when it succeeded
CommandOutput == ExecutionResult(to_string(call.argv[1])).output

\* C2 as stated: Execution.exec(cmd) raises an execution failure whenever the
\* command fails; it never returns normally for a failed command.
C2_ExecRaisesOnFailure ==
    (call.op = "exec" /\ CommandFailed) => call.exc = "ExecutionFailure"

\* C2 amended: Execution.exec(cmd) never raises; for a command that fails it
\* returns nil, for one that succeeds it returns the captured output.
C2_ExecReturnsNilOnFailure ==
    call.op = "exec" =>
        /\ call.exc = NoException
        /\ CommandFailed => is_nil(call.ret)
        /\ ~CommandFailed => call.ret = CommandOutput

\* exec of a failing command has returned
C2_Witness ==
    /\ call.op = "exec"
    /\ call.argv = << Str(<<"false">>) >>
    /\ CommandFailed
    /\ call.exc = NoException
    /\ is_nil(call.ret)

\* the on_fail entry of the options the last execute call was given
OnFailOption == HashLookupOnFail(call.argv[2])

\* C3: when the command fails, execute with one argument raises, execute with
\* on_fail equal to the symbol :raise raises, and execute with any other
\* on_fail value v returns exactly v; when the command succeeds every form
\* returns the captured output and raises nothing.
C3_ExecuteFailurePolicy ==
    call.op = "execute" =>
        /\ ~CommandFailed =>
              call.exc = NoException /\ call.ret = CommandOutput
        /\ (CommandFailed /\ Len(call.argv) = 1) =>
              call.exc = "ExecutionFailure"
        /\ (CommandFailed /\ Len(call.argv) = 2 /\ OnFailOption = Sym(<<"raise">>)) =>
              call.exc = "ExecutionFailure"
        /\ (CommandFailed /\ Len(call.argv) = 2 /\ OnFailOption # Sym(<<"raise">>)) =>
              call.exc = NoException /\ call.ret = OnFailOption

\* execute of a failing command with on_fail: "raise", a string, has returned it
C3_Witness ==
    /\ call.op = "execute"
    /\ CommandFailed
    /\ Len(call.argv) = 2
    /\ OnFailOption = Str(<<"raise">>)
    /\ call.exc = NoException
    /\ call.ret = Str(<<"raise">>)

\* pairs of names that differ in case and in type only: one defined at the
\* top level, one that plugin files define, one that is native
NamePairs ==
    { << Sym(<<"N", "o">>), Str(<<"N", "O">>) >>,
      << Str(<<"O", "s">>), Sym(<<"o", "S">>) >>,
      << Sym(<<"K">>), Str(<<"k">>) >> }

\* C4: fact names are case-insensitive and type-insensitive between symbol and
\* string: for two names equal ignoring case, add, define_fact, fact and value
\* address the same registry entry; every key of the registry is a lower-cased
\* string; normalize is idempotent.
C4_NamesAreNormalized ==
    /\ \A key \in DOMAIN _facts : key = downcase(key)
    /\ \A pair \in NamePairs :
          /\ downcase(to_string(pair[1])) = downcase(to_string(pair[2]))
          /\ \A i \in {1, 2} :
                /\ is_string(normalize(pair[i]))
                /\ normalize(normalize(pair[i])) = normalize(pair[i])
                \* fact and value under one name find what add and define_fact
                \* made under the other
                /\ load_fact(ruby_add(Module, <<pair[i]>>, NoBlock), pair[3 - i]).ret
                      = ruby_add(Module, <<pair[i]>>, NoBlock).ret
                /\ load_fact(ruby_add(Module, <<pair[i]>>, NoBlock), pair[3 - i])._facts
                      = ruby_add(Module, <<pair[i]>>, NoBlock)._facts
                /\ fact_value(ruby_define_fact(Module, <<pair[i]>>, NoBlock), pair[3 - i])._facts
                      = FactValue(ruby_define_fact(Module, <<pair[i]>>, NoBlock),
                                  to_string(normalize(pair[i])))._facts
          \* add and define_fact under either name address one entry
          /\ ruby_add(Module, <<pair[1]>>, NoBlock).ret
                = ruby_define_fact(Module, <<pair[2]>>, NoBlock).ret
          /\ DOMAIN ruby_add(ruby_define_fact(Module, <<pair[2]>>, NoBlock),
                             <<pair[1]>>, NoBlock)._facts
                = DOMAIN ruby_define_fact(Module, <<pair[2]>>, NoBlock)._facts
          \* fact and value under either name give the same fact and value
          /\ load_fact(Module, pair[1]).ret = load_fact(Module, pair[2]).ret
          /\ fact_value(Module, pair[1]).ret = fact_value(Module, pair[2]).ret

\* a fact added under a mixed-case symbol, its value read under an upper-case string
C4_Witness ==
    /\ call.op = "add"
    /\ call.argv[1] = Sym(<<"N", "o">>)
    /\ call.exc = NoException
    /\ DOMAIN _facts = { <<"n", "o">> }
    /\ fact_value(Module, Str(<<"N", "O">>)).ret = Str(<<"BSD">>)

\* whether a plugin file of the directories makes an add or define_fact call
\* for the fact name key
PluginDefines(key, directories) ==
    \E i \in 1..Len(directories), path \in PluginFiles :
        /\ path[1] = directories[i]
        /\ MatchesRb(path[2])
        /\ \E j \in 1..Len(Script(path)) :
              /\ Script(path)[j].op \in {"add", "define_fact"}
              /\ to_string(normalize(Script(path)[j].argv[1])) = key

\* whether the native collection, once populated again, holds a value for key
NativeHolds(key) ==
    key \in DOMAIN DefaultFacts \cup DOMAIN ExternalFacts(_external_search_paths)

\* C5: after a fact has been defined with add or define_fact and reset has
\* then been called, value(name) returns nil whenever no plugin file of the
\* recomputed search paths defines the name and the native collection, as
\* repopulated from default and external facts, holds no value for it.
C5_ValueAbsentAfterReset ==
    call.op = "reset" =>
        \A key \in call.before.facts :
            (~PluginDefines(key, _search_paths) /\ ~NativeHolds(key)) =>
                /\ is_nil(fact_value(Module, Str(key)).ret)
                /\ key \notin DOMAIN _facts

\* reset has returned; before it the registry held the fact "no", defined at
\* the top level only, and now its value is nil
C5_Witness ==
    /\ call.op = "reset"
    /\ <<"n", "o">> \in call.before.facts
    /\ ~PluginDefines(<<"n", "o">>, _search_paths)
    /\ is_nil(fact_value(Module, Str(<<"n", "o">>)).ret)

\* the add calls whose failure C10 is about: the name is a string or a symbol,
\* the options are a hash or absent, and the definition of the resolution or
\* the block fails
FailingAdds ==
    { c \in [argv : AddArguments \cup { << Str(<<"o", "s">>) >> }, block : Blocks] :
        /\ Len(c.argv) = 1 \/ c.argv[2].type = "Hash"
        /\ \/ Len(c.argv) = 2 /\ DefineResolutionFails(c.argv[2])
           \/ c.block.raises }

\* C10: if defining the resolution or evaluating the block fails during
\* add(name, ...), the fact's cached value is nil when the failure is
\* re-signalled, the failure is always re-signalled, the fact stays in the
\* registry, and no other fact's registry entry is changed.
C10_FailedAddInvalidatesOnlyItsFact ==
    \A c \in FailingAdds :
        LET key == to_string(normalize(c.argv[1]))
        IN  /\ ruby_add(Module, c.argv, c.block).exc # NoException
            /\ key \in DOMAIN ruby_add(Module, c.argv, c.block)._facts
            /\ key \in DOMAIN ruby_add(Module, c.argv, c.block).gc_registered
            /\ is_nil(ruby_add(Module, c.argv, c.block)._facts[key].value)
            /\ is_nil(fact_value(ruby_add(Module, c.argv, c.block), c.argv[1]).ret)
            /\ DOMAIN ruby_add(Module, c.argv, c.block)._facts = DOMAIN _facts \cup {key}
            /\ \A other \in DOMAIN _facts \ {key} :
                  ruby_add(Module, c.argv, c.block)._facts[other] = _facts[other]

\* an add for the fact "no" has failed in its block: the fact holds a
\* resolution with a value, and its cached value is nil
C10_Witness ==
    /\ call.op = "add"
    /\ call.exc = "RuntimeError"
    /\ <<"n", "o">> \in DOMAIN _facts
    /\ ~is_nil(FirstResolved(_facts[<<"n", "o">>].resolutions))
    /\ _facts[<<"n", "o">>].resolved
    /\ is_nil(_facts[<<"n", "o">>].value)
    /\ <<"o", "s">> \in DOMAIN _facts

\* the directories the default sources name: the "facter" directories of the
\* load path and the directories of FACTERLIB, in canonical form (the empty
\* string for one that has none)
DefaultDirectories ==
    { IF canonical(d).ok THEN canonical(d).path ELSE "" :
        d \in { LoadPathDirectories(LoadPath, 1)[i] :
                    i \in 1..Len(LoadPathDirectories(LoadPath, 1)) }
              \cup (IF FACTERLIB.set
                    THEN { split(FACTERLIB.val, PathSeparator)[i] :
                             i \in 1..Len(split(FACTERLIB.val, PathSeparator)) }
                    ELSE {}) }

\* C6: immediately after reset returns, the registry is empty and every former
\* handle is unpinned, the additional search paths are empty (search_path
\* returns an empty list), the external search paths are empty, the
\* loaded-file set is empty and the all-loaded flag is false; the search paths
\* hold no directory that was added at runtime through search.
C6_StateAfterReset ==
    call.op \in {"reset", "clear"} =>
        /\ DOMAIN _facts = {}
        /\ DOMAIN gc_registered = {}
        /\ _additional_search_paths = << >>
        /\ ruby_search_path(Module).ret.str = << >>
        /\ _external_search_paths = << >>
        /\ ruby_search_external_path(Module).ret.str = << >>
        /\ _loaded_files = {}
        /\ ~_loaded_all
        /\ \A i \in 1..Len(_search_paths) : _search_paths[i] \in DefaultDirectories
        /\ \A j \in 1..Len(call.before.additional) :
              (/\ canonical(call.before.additional[j]).ok
               /\ canonical(call.before.additional[j]).path \notin DefaultDirectories)
              => \A i \in 1..Len(_search_paths) :
                    _search_paths[i] # canonical(call.before.additional[j]).path

\* reset has returned; before it there were facts, pinned handles, a runtime
\* search path that no default source names, an external search path, loaded
\* files, and the all-loaded flag was set
C6_Witness ==
    /\ call.op = "reset"
    /\ call.before.facts # {}
    /\ call.before.registered # {}
    /\ call.before.additional = << "/d2" >>
    /\ call.before.external # << >>
    /\ <<"/d2", MRb>> \in call.before.loaded
    /\ call.before.all
    /\ DOMAIN _facts = {}
    /\ \A i \in 1..Len(_search_paths) : _search_paths[i] # "/d2"

\* the line a logging call writes for a message
LogLine(severity, message) == << <<severity, to_string(message)>> >>

\* C7: over a whole session, resets and clears included, debugonce writes a
\* given message at most once and warnonce writes a given message at most
\* once, each severity on its own (debugonce of a message does not suppress
\* warnonce of it); debug and warn write on every call.
C7_OnceMessagesWrittenOnce ==
    /\ \A line \in DOMAIN once_emitted : once_emitted[line] <= 1
    /\ \A message \in Messages :
          /\ ruby_debugonce(Module, message).log =
                IF <<"LOG_DEBUG", to_string(message)>> \in DOMAIN once_emitted
                THEN << >> ELSE LogLine("LOG_DEBUG", message)
          /\ ruby_warnonce(Module, message).log =
                IF <<"LOG_WARNING", to_string(message)>> \in DOMAIN once_emitted
                THEN << >> ELSE LogLine("LOG_WARNING", message)
    /\ call.op = "debug" => call.log = LogLine("LOG_DEBUG", call.argv[1])
    /\ call.op = "warn" => call.log = LogLine("LOG_WARNING", call.argv[1])

\* debugonce("x") has just written nothing: a plugin file executed twice, once
\* before and once after a reset, made the same call, and one line was written;
\* warnonce("x") wrote its line all the same
C7_Witness ==
    /\ call.op = "debugonce"
    /\ call.argv = << Str(<<"x">>) >>
    /\ call.log = << >>
    /\ <<"/d1", OsRb>> \in DOMAIN executed
    /\ executed[<<"/d1", OsRb>>] = 2
    /\ once_emitted[<<"LOG_DEBUG", <<"x">>>>] = 1
    /\ <<"LOG_WARNING", <<"x">>>> \in DOMAIN once_emitted
    /\ once_emitted[<<"LOG_WARNING", <<"x">>>>] = 1

\* the files named filename that are not loaded yet, one per directory that
\* has one, in the order of the directories
RECURSIVE NamedFiles(_, _, _, _)
NamedFiles(directories, filename, i, found) ==
    IF i > Len(directories) THEN found
    ELSE IF /\ is_regular_file(PathJoin(directories[i], filename))
            /\ PathJoin(directories[i], filename) \notin _loaded_files
            /\ \A j \in 1..Len(found) : found[j] # PathJoin(directories[i], filename)
         THEN NamedFiles(directories, filename, i + 1,
                         Append(found, PathJoin(directories[i], filename)))
    ELSE NamedFiles(directories, filename, i + 1, found)

\* the files named filename that a call executed, in the order it did
LoadedNamed(log, filename) ==
    LET loads == SelectSeq(log, LAMBDA e : e[1] = "rb_load")
    IN  SelectSeq([i \in 1..Len(loads) |-> loads[i][2]], LAMBDA path : path[2] = filename)

\* the names looked up in C8: as a string and as a symbol, with files in two
\* directories, in one, and in none
LookupNames == { Str(<<"o", "s">>), Sym(<<"O", "S">>), Sym(<<"m">>), Str(<<"B">>), Str(<<"z">>) }

\* C8: on the first lookup of a fact name that is not cached, while the
\* all-loaded flag is false, every file <name>.rb not loaded yet, in every
\* directory of the search paths, is loaded, in the order of the search
\* paths, and not the first match only.
C8_LookupLoadsEveryNamedFile ==
    \A name \in LookupNames :
        (~_loaded_all /\ to_string(normalize(name)) \notin DOMAIN _facts) =>
            /\ LoadedNamed(load_fact(Module, name).log,
                           Append(to_string(normalize(name)), ".rb"))
                  = NamedFiles(_search_paths, Append(to_string(normalize(name)), ".rb"),
                               1, << >>)
            /\ \A i \in 1..Len(_search_paths) :
                  is_regular_file(PathJoin(_search_paths[i],
                                           Append(to_string(normalize(name)), ".rb")))
                  => PathJoin(_search_paths[i], Append(to_string(normalize(name)), ".rb"))
                        \in load_fact(Module, name)._loaded_files

\* a lookup of "os" has loaded os.rb from both directories that have one, and
\* nothing else: the fact holds the resolutions of both files
C8_Witness ==
    /\ ~_loaded_all
    /\ _loaded_files = { <<"/lp/facter", OsRb>>, <<"/d1", OsRb>> }
    /\ <<"o", "s">> \in DOMAIN _facts
    /\ _facts[<<"o", "s">>].resolutions = << Str(<<"Linux">>), Str(<<"Darwin">>) >>

\* the plugin files in the directories of the search paths
FilesOfSearchPaths ==
    { path \in PluginFiles :
        MatchesRb(path[2]) /\ \E i \in 1..Len(_search_paths) : _search_paths[i] = path[1] }

\* C9: a failure raised while a plugin file is executed does not leave
\* load_file: in a full discovery pass every remaining file of every directory
\* of the search paths is still loaded, the pass ends with the all-loaded flag
\* true, and the file that failed stays in the loaded-file set.
C9_FailureDoesNotStopDiscovery ==
    /\ \A path \in PluginFiles :
          /\ load_file(Module, path).exc = NoException
          /\ path \in load_file(Module, path)._loaded_files
    /\ ~_loaded_all =>
          /\ load_facts(Module).exc = NoException
          /\ load_facts(Module)._loaded_all
          /\ FilesOfSearchPaths \subseteq load_facts(Module)._loaded_files
    /\ _loaded_all =>
          \A path \in DOMAIN executed_since_reset :
              executed_since_reset[path] >= 1 => path \in _loaded_files

\* a full pass has ended: b.rb, which fails, is in the loaded-file set, and so
\* are the file after it in its directory and the file of the next directory
C9_Witness ==
    /\ _loaded_all
    /\ <<"/d1", BRb>> \in _loaded_files
    /\ <<"b">> \in DOMAIN _facts
    /\ <<"/d1", OsRb>> \in _loaded_files
    /\ <<"/d2", MRb>> \in _loaded_files
    /\ <<"m">> \in DOMAIN _facts
    /\ _facts[<<"m">>].resolutions = << Str(<<"4096">>) >>

\* the scans of a directory and the executions of a file that a call made
ScansAndLoads(log) == SelectSeq(log, LAMBDA e : e[1] \in {"scan", "rb_load"})

\* C11: once the all-loaded flag is true, no entry point scans a search
\* directory or loads a plugin file until the next reset or clear, even if
\* search has added directories in between; a second loadfacts changes no
\* state.
C11_NoDiscoveryOnceAllLoaded ==
    [][_loaded_all =>
          /\ load_facts(Module) = Module
          /\ \A name \in ValueNames \cup FactNames \cup LookupNames :
                /\ ScansAndLoads(load_fact(Module, name).log) = << >>
                /\ load_fact(Module, name)._loaded_files = _loaded_files
          /\ ScansAndLoads(ruby_to_hash(Module).log) = << >>
          /\ call'.op \notin {"reset", "clear"} =>
                /\ _loaded_all'
                /\ _loaded_files' = _loaded_files
                /\ executed' = executed
                /\ executed_since_reset' = executed_since_reset]_vars

\* after a full pass, search has added a directory whose files are not
\* loaded; a lookup of a fact one of them defines finds nothing
C11_Witness ==
    /\ _loaded_all
    /\ _additional_search_paths = << "/d1" >>
    /\ <<"/d1", BRb>> \notin _loaded_files
    /\ <<"/lp/facter", OsRb>> \in _loaded_files
    /\ is_nil(load_fact(Module, Str(<<"B">>)).ret)

\* C12: in every reachable state the search paths hold no entry twice,
\* whatever the overlap between the directories of the load path, of
\* FACTERLIB, of construction and of search calls.
C12_NoDuplicateSearchPath ==
    \A i \in 1..Len(_search_paths), j \in 1..Len(_search_paths) :
        i # j => _search_paths[i] # _search_paths[j]

\* the texts of the string arguments of a search call, in order
StringArguments(argv) ==
    LET strings == SelectSeq(argv, is_string)
    IN  [i \in 1..Len(strings) |-> to_string(strings[i])]

\* the canonical forms of the paths that have one, in order
CanonicalForms(paths) ==
    LET found == SelectSeq(paths, LAMBDA p : canonical(p).ok)
    IN  [i \in 1..Len(found) |-> canonical(found[i]).path]

\* C13: search(p1..pn) appends every string argument verbatim and in order to
\* the additional search paths, appends its canonical form to the search
\* paths if and only if it has one, and search_path then returns exactly the
\* additional search paths in insertion order; a path with no canonical form
\* is recorded in the additional search paths and leaves the search paths
\* unchanged.
C13_SearchRecordsAndCanonicalizes ==
    /\ \A argv \in PathArguments \cup SearchArguments \cup { << Str("/nx") >> } :
          /\ ruby_search(Module, argv, 1)._additional_search_paths
                = _additional_search_paths \o StringArguments(argv)
          /\ ruby_search(Module, argv, 1)._search_paths
                = _search_paths \o CanonicalForms(StringArguments(argv))
          /\ ruby_search_path(ruby_search(Module, argv, 1)).ret.str
                = _additional_search_paths \o StringArguments(argv)
    /\ ruby_search(Module, << Str("/nx") >>, 1)._search_paths = _search_paths
    /\ call.op = "search" =>
          /\ call.exc = NoException
          /\ Len(_additional_search_paths) >= Len(StringArguments(call.argv))
          /\ SubSeq(_additional_search_paths,
                    Len(_additional_search_paths) - Len(StringArguments(call.argv)) + 1,
                    Len(_additional_search_paths)) = StringArguments(call.argv)
    /\ call.op = "search_path" => call.ret.str = _additional_search_paths

\* search("/nx", 7, "/d2/../d1") has returned: both strings are recorded as
\* given, and the canonical form of the one that has one ends the search paths
C13_Witness ==
    /\ call.op = "search"
    /\ call.argv = << Str("/nx"), Fixnum(<<"7">>), Str("/d2/../d1") >>
    /\ _additional_search_paths = << "/nx", "/d2/../d1" >>
    /\ _search_paths[Len(_search_paths)] = "/d1"
    /\ \A i \in 1..Len(_search_paths) : _search_paths[i] # "/nx"

\* the positions in a log of the events of the given kinds
Positions(log, kinds) == { i \in 1..Len(log) : log[i][1] \in kinds }

\* C14: after list, to_hash or each has run its resolve-all step, the native
\* collection is populated, a full discovery pass has been performed (the
\* all-loaded flag is true) and every fact of the registry has had its value
\* computed; the three steps happen in the order populate, discover,
\* evaluate, and full discovery is entered on every resolve-all.
C14_ResolveAllOrder ==
    /\ resolve_facts(Module).exc = NoException
    /\ DOMAIN resolve_facts(Module)._collection # {}
    /\ DOMAIN _collection = {} =>
          Positions(resolve_facts(Module).log, {"populate"}) = {1}
    /\ resolve_facts(Module)._loaded_all
    /\ ~_loaded_all =>
          /\ FilesOfSearchPaths \subseteq resolve_facts(Module)._loaded_files
          /\ Len(_search_paths) > 0 =>
                Positions(resolve_facts(Module).log, {"scan"}) # {}
    /\ \A key \in DOMAIN resolve_facts(Module)._facts :
          \E i \in Positions(resolve_facts(Module).log, {"value"}) :
              resolve_facts(Module).log[i] = <<"value", key>>
    /\ \A p \in Positions(resolve_facts(Module).log, {"populate"}),
          d \in Positions(resolve_facts(Module).log, {"scan", "rb_load"}),
          v \in Positions(resolve_facts(Module).log, {"value"}) :
              p < d /\ d < v
    /\ ruby_to_hash(Module).ret.str = resolve_facts(Module)._collection

\* to_hash has run: the flag is set, every fact has a cached value, and the
\* collection holds the values of the facts the plugin files define
C14_Witness ==
    /\ _loaded_all
    /\ {<<"o", "s">>, <<"m">>, <<"b">>} \subseteq DOMAIN _facts
    /\ \A key \in DOMAIN _facts : _facts[key].resolved
    /\ {<<"k">>, <<"o", "s">>, <<"m">>} \subseteq DOMAIN _collection
    /\ _collection[<<"m">>] = Str(<<"4096">>)

\* the contexts of a container that hold a module together with its collection
LiveContexts(s) ==
    { id \in 1..Len(s.contexts) : s.contexts[id].module /\ s.contexts[id].collection }

\* the events of a call that made an object
Made(log) == { i \in 1..Len(log) : log[i][1] = "new" }

\* C15: initialize_facter is a silent no-op when the interpreter is absent or
\* is not initialized after the attempt to initialize it: nothing is made, no
\* context is added, g_context stays null and no exception leaves the call.
C15_StartIsSilentWithoutInterpreter ==
    [][(/\ call'.op = "initialize_facter"
        /\ (interpreter'.api = "absent" \/ ~interpreter'.initialized))
       => /\ call'.exc = NoException
          /\ Made(call'.log) = {}
          /\ session'.contexts = session.contexts
          /\ session'.g_context = 0]_vars

\* C16 as stated: whatever the calls of initialize_facter and shutdown_facter
\* were, at most one context holds a module and a collection.
C16_AtMostOneLiveSession ==
    Cardinality(LiveContexts(session)) <= 1

\* C16: while initialize_facter is not called with a context still in
\* g_context, the only context that can hold a module and a collection is
\* the one g_context points to, so at most one session is live.
C16_AtMostOneLiveSessionWhenStopped ==
    [][(/\ LiveContexts(session) \subseteq {session.g_context}
        /\ ~(call'.op = "initialize_facter" /\ session.g_context # 0))
       => /\ LiveContexts(session') \subseteq {session'.g_context}
          /\ Cardinality(LiveContexts(session')) <= 1]_vars

\* a second session was started after the first was shut down
C16_Witness ==
    /\ call.op = "initialize_facter"
    /\ Len(session.contexts) >= 2
    /\ session.g_context = Len(session.contexts)
    /\ LiveContexts(session) = {session.g_context}

\* C17: a scoped_env sets the variable at once; leaving it puts the variable
\* back as the scope found it, the same value if it was set and unset if it
\* was not; each nested scope found what the one around it had set, so leaving
\* them innermost first ends with the variable as the outermost found it.
C17_ScopedEnvRoundTrip ==
    [][/\ (call'.op = "scoped_env"
           => /\ FACTERLIB'.set
              /\ FACTERLIB'.val = scopes'[Len(scopes')].val
              /\ scopes'[Len(scopes')].before = FACTERLIB)
       /\ (call'.op = "restore"
           => /\ FACTERLIB' = scopes[Len(scopes)].before
              /\ (Len(scopes) > 1
                  => FACTERLIB' = [set |-> TRUE, val |-> scopes[Len(scopes) - 1].val])
              /\ \A i \in 1..Len(scopes') :
                    scopes'[i].before = scopes[i].before)]_vars

\* a scope nested in another was left: the variable holds what the outer
\* scope set, and the outer scope still knows that it found the variable unset
C17_Witness ==
    /\ call.op = "restore"
    /\ Len(scopes) = 1
    /\ ~scopes[1].before.set
    /\ scopes[1]._resource[2] = None
    /\ FACTERLIB = [set |-> TRUE, val |-> scopes[1].val]

\* C18 as stated: when a module is destroyed the constant Facter is bound to
\* exactly what it was bound to before the module was constructed, and is
\* undefined if it was undefined; the destructor empties _facts, unregisters
\* every fact from the collector and leaves the collection as it is.
C18_ConstructTeardownRoundTrip ==
    [][call'.op = "~module"
       => /\ interpreter'.Facter = bridge.before
          /\ _facts' = EmptyMap
          /\ DOMAIN gc_registered' \cap DOMAIN _facts = {}
          /\ _collection' = _collection]_vars

\* the names looked up in C19: those of C8 and one the native collection holds
SourceNames == LookupNames \cup { Sym(<<"K">>) }

\* the module after the search of load_fact for the files named after key
AfterNameScan(key) ==
    IF ~_loaded_all
    THEN LoadByName(Module, _search_paths, Append(key, ".rb"), 1)
    ELSE Module

\* whether the files named after key answer the lookup
AnsweredByFile(key) == ~_loaded_all /\ key \in DOMAIN AfterNameScan(key)._facts

\* whether the native collection answers the lookup
AnsweredByCollection(key) ==
    /\ ~AnsweredByFile(key)
    /\ ~is_nil(Lookup(facts(AfterNameScan(key))._collection, key))

\* the directory scans of load_facts that a call made
Scans(log) == SelectSeq(log, LAMBDA e : e[1] = "scan")

Candidates(paths) ==
    LoadPathDirectories(LoadPath, 1)
    \o (IF FACTERLIB.set THEN split(FACTERLIB.val, PathSeparator) ELSE << >>)
    \o paths

\* C20: after construction, reset or clear, _search_paths is exactly the
\* canonical forms, in order, of the candidate directories that have one:
\* the "facter" directories of the load path, the directories of FACTERLIB,
\* the paths given; it holds no empty string and no entry for a candidate
\* that has no canonical form.
C20_SearchPathsAreCanonicalCandidates ==
    /\ call.op = "new" =>
          \E paths \in ConstructionPaths :
              _search_paths = CanonicalForms(Candidates(paths))
    /\ call.op \in {"reset", "clear"} =>
          _search_paths = CanonicalForms(Candidates(<< >>))
    /\ call.op \in {"new", "reset", "clear"} =>
          \A i \in 1..Len(_search_paths) : _search_paths[i] # ""

\* C21: in every state the facts registered with the collector are exactly
\* the entries of _facts, each registered once: a fact is registered when
\* create_fact inserts it (for add, define_fact or a lookup that wraps a
\* value of the collection) and unregistered when reset, clear or the
\* destructor removes it.
C21_PinnedIsRegistry ==
    /\ DOMAIN gc_registered = DOMAIN _facts
    /\ \A key \in DOMAIN gc_registered : gc_registered[key] = 1

\* the destructor has run on a module that held registered facts defined by
\* add and by a lookup, and none is registered any more
C21_Witness ==
    /\ call.op = "~module"
    /\ Cardinality(call.before.registered) >= 2
    /\ call.before.registered = call.before.facts
    /\ DOMAIN gc_registered = {}
    /\ DOMAIN _facts = {}

\* C22: fact(name) for a name that is in _facts returns the fact it holds
\* and changes nothing: no file is loaded, no directory is scanned, the
\* collection is not populated, and _loaded_files, _loaded_all,
\* _search_paths, _facts and the registered addresses are as before.
C22_CachedLookupChangesNothing ==
    \A name \in FactNames \cup SourceNames :
        to_string(normalize(name)) \in DOMAIN _facts =>
            /\ load_fact(Module, name).ret = FactSelf(to_string(normalize(name)))
            /\ load_fact(Module, name).exc = NoException
            /\ load_fact(Module, name).log = << >>
            /\ load_fact(Module, name)._collection = _collection
            /\ load_fact(Module, name)._loaded_files = _loaded_files
            /\ load_fact(Module, name)._loaded_all = _loaded_all
            /\ load_fact(Module, name)._search_paths = _search_paths
            /\ load_fact(Module, name)._facts = _facts
            /\ load_fact(Module, name).gc_registered = gc_registered
            /\ load_fact(Module, name).executed = executed
            /\ load_fact(Module, name) = Return(Module, FactSelf(to_string(normalize(name))))

\* os is in _facts while _loaded_all is false and a file os.rb of a
\* directory of the search paths has not been loaded: the lookup of :OS
\* returns the fact and loads nothing
C22_Witness ==
    /\ <<"o", "s">> \in DOMAIN _facts
    /\ ~_loaded_all
    /\ \E i \in 1..Len(_search_paths) :
          /\ is_regular_file(PathJoin(_search_paths[i], OsRb))
          /\ PathJoin(_search_paths[i], OsRb) \notin _loaded_files
    /\ load_fact(Module, Sym(<<"O", "S">>)).ret = FactSelf(<<"o", "s">>)
    /\ load_fact(Module, Sym(<<"O", "S">>))._loaded_files = _loaded_files

\* the steps of a loop over a container that a call made from inside the
\* loop had modified
Modified(log) == { i \in 1..Len(log) : log[i][1] = "modified" }

\* C23: while load_facts or the scan of load_fact by file name iterates
\* _search_paths, no entry point called by the plugin file being run
\* modifies _search_paths.
C23_NoModificationDuringIteration ==
    Modified(call.log) = {}

\* the events of a call that released a module or a collection
Deleted(log, what) == { i \in 1..Len(log) : log[i] = <<"delete", what>> }

\* the contexts that hold a module, and those that hold a collection
HoldingModule(s) == { id \in 1..Len(s.contexts) : s.contexts[id].module }
HoldingCollection(s) == { id \in 1..Len(s.contexts) : s.contexts[id].collection }

\* a step of the container in which shutdown_facter with g_context null
\* changes nothing, shutdown_facter deletes no context, and a module and a
\* collection are released once, by the call that finds the context still
\* holding them, a context never holding them again
ReleasedOnceNeverDeletedByShutdown ==
    /\ (call'.op = "shutdown_facter" /\ session.g_context = 0)
       => /\ session' = session
          /\ interpreter' = interpreter
          /\ call'.log = << >>
    /\ call'.op = "shutdown_facter"
       => \A id \in 1..Len(session.contexts) :
             session'.contexts[id].deleted = session.contexts[id].deleted
    /\ call'.op # "initialize_facter"
       => /\ HoldingModule(session') \subseteq HoldingModule(session)
          /\ HoldingCollection(session') \subseteq HoldingCollection(session)
          /\ Cardinality(Deleted(call'.log, "module"))
                = Cardinality(HoldingModule(session) \ HoldingModule(session'))
          /\ Cardinality(Deleted(call'.log, "collection"))
                = Cardinality(HoldingCollection(session) \ HoldingCollection(session'))

\* whether g_context, when it is not null, points to a context not deleted
ContextPointerIsLive(s) ==
    s.g_context # 0 => ~s.contexts[s.g_context].deleted

\* C24: for every ordering of initialize_facter, shutdown_facter and the
\* cleanup the interpreter runs for the context: shutdown_facter with no
\* live session is a no-op, shutdown_facter never deletes the context, the
\* module and the collection are released exactly once, and whenever
\* g_context is not null the context it points to has not been deleted.
C24_ShutdownOrderings ==
    [][ReleasedOnceNeverDeletedByShutdown /\ ContextPointerIsLive(session')]_vars

\* the files being executed, outermost first
FilesInProgress(s) ==
    [k \in 1..Len(SelectSeq(s, LAMBDA f : f.pc = "file")) |->
        SelectSeq(s, LAMBDA f : f.pc = "file")[k].path]

\* a file being executed is in the loaded-file set and is being executed once
ExecutingOnce ==
    /\ \A k \in DOMAIN FilesInProgress(frames) :
          FilesInProgress(frames)[k] \in _loaded_files
    /\ \A k, l \in DOMAIN FilesInProgress(frames) :
          FilesInProgress(frames)[k] = FilesInProgress(frames)[l] => k = l
    /\ Len(frames) < MaxDepth

\* C25: with finitely many plugin files and no nested reset or clear, every
\* lookup and every full discovery pass terminates, also when the files being
\* executed call fact, value or loadfacts themselves (for their own name
\* included): the path of a file is in the loaded-file set before the file is
\* executed, so a nested request never executes a file that is being executed.
C25_NestedRequestsTerminate ==
    /\ []ExecutingOnce
    /\ (frames # << >>) ~> (frames = << >>)

\* /d2/m.rb, while being executed, asked for the fact m, and that lookup is
\* about to return without having executed the file a second time
C25_Witness ==
    \E k, l \in DOMAIN frames :
        /\ k < l
        /\ frames[k].pc = "file"
        /\ frames[k].path = <<"/d2", MRb>>
        /\ frames[l].pc = "discovered"
        /\ KeyOf(frames[l]) = <<"m">>
        /\ Lookup(executed, <<"/d2", MRb>>) = 1

====
